---- MODULE Spec2Model ----
(***************************************************************************)
(* Session store, ingestion job lifecycle and validation entry point of    *)
(* the IFC analysis backend (backend/services/session_manager.py,          *)
(* backend/routes/ifc_routes.py, backend/routes/validation_routes.py).     *)
(*                                                                         *)
(* Request handlers are `async def` coroutines of one event loop: between  *)
(* two `await`s a handler is never interleaved with another handler, but   *)
(* it is interleaved with the ingestion worker threads and with the clock  *)
(* at every store call.  The model keeps one frame `h` for the handler     *)
(* that owns the event loop, the frames of the handlers that wait at an    *)
(* `await`, and one record per worker thread.                              *)
(*                                                                         *)
(*   Spec, FairSpec   uploads, ingestion workers and job polls             *)
(*   ValidationSpec   uploads, ingestion workers and validation runs       *)
(*   StoreSpec        the session store under one client's calls           *)
(*   RaceSpec         threads that call update_session side by side        *)
(*   ElementSpec, RunSpec, RulesSpec, PredicateSpec, NameSpec              *)
(*                    the functions of backend/services/excel_validator.py *)
(*                    applied to arguments drawn from bounded sets         *)
(*   IssuesSpec       the pages of issues of a stored report               *)
(*   PercentSpec      the percentage of a summary, from its two counts     *)
(*   LockSpec, LockFairSpec   the threads at the session store's lock      *)
(***************************************************************************)
EXTENDS Integers, Sequences, FiniteSets, TLC

\* ------------------------------------------------------------------ bounds
MaxSessions == 1
MaxUploads == 2
MaxTicks == 1
\* the same for a client that calls the session store directly
MaxStoreSessions == 2
MaxStoreTicks == 2
\* validation runs that may wait for their spreadsheet at one time
MaxPending == 1
\* threads that call update_session side by side
MaxCallers == 2
\* validate_element on its own: the longest list of rules
MaxRules == 2
\* run_validation on its own: the longest lists of elements and of rules
MaxElements == 2
MaxRunRules == 2
\* parse_excel_rules on its own: the most rows of a spreadsheet
MaxRows == 2
\* parse_expected_value on its own: the longest generated text
MaxText == 4
\* extract_discipline_stage on its own: the longest name before the extension
MaxBase == 15
\* get_validation_issues on its own: the most issues of a report, the last
\* page a client asks for and the largest page size
MaxIssues == 3
MaxPage == 3
MaxPageSize == 2
\* the percentage of a summary on its own: the most evaluated elements
MaxEvaluated == 2001
\* the store's lock: the threads
MaxThreads == 2

\* -------------------------------------------------------- program constants
TTL == 3600
MAX_FILE_SIZE == 314572800

\* Optional values: None is the empty tuple, a present value v is <<v>>.
None == <<>>
Some(v) == <<v>>

\* ------------------------------------------------------------------- text
\* Strings are sequences of one-character strings, so that length, suffix
\* and case conversion are computed as the code computes them.
LowerOf ==
    [A |-> "a", B |-> "b", C |-> "c", D |-> "d", E |-> "e", F |-> "f",
     G |-> "g", H |-> "h", I |-> "i", J |-> "j", K |-> "k", L |-> "l",
     M |-> "m", N |-> "n", O |-> "o", P |-> "p", Q |-> "q", R |-> "r",
     S |-> "s", T |-> "t", U |-> "u", V |-> "v", W |-> "w", X |-> "x",
     Y |-> "y", Z |-> "z"]

LowerChar(c) ==
    IF c \in DOMAIN LowerOf THEN LowerOf[c] ELSE IF c = "Ã" THEN "ã" ELSE c

Lower(s) == [i \in 1..Len(s) |-> LowerChar(s[i])]

EndsWith(s, suffix) ==
    /\ Len(s) >= Len(suffix)
    /\ SubSeq(s, Len(s) - Len(suffix) + 1, Len(s)) = suffix

DotIfc == <<".", "i", "f", "c">>

\* "VG076-GAS-COB01.ifc"
FileGasCob ==
    <<"V", "G", "0", "7", "6", "-", "G", "A", "S", "-", "C", "O", "B", "0", "1",
      ".", "i", "f", "c">>
\* "a.IFC": accepted by the extension check, too short for the validator
FileShort == <<"a", ".", "I", "F", "C">>
\* "notes.txt": rejected by the extension check
FileTxt == <<"n", "o", "t", "e", "s", ".", "t", "x", "t">>

DotXlsx == <<".", "x", "l", "s", "x">>

UpperChar(c) ==
    IF \E u \in DOMAIN LowerOf : LowerOf[u] = c
    THEN CHOOSE u \in DOMAIN LowerOf : LowerOf[u] = c
    ELSE IF c = "ã" THEN "Ã" ELSE c

Upper(s) == [i \in 1..Len(s) |-> UpperChar(s[i])]

\* str.strip()
Strip(s) ==
    LET kept == {i \in 1..Len(s) : s[i] \notin {" ", "\t", "\n"}}
    IN  IF kept = {} THEN <<>>
        ELSE SubSeq(s, CHOOSE i \in kept : \A j \in kept : i <= j,
                       CHOOSE i \in kept : \A j \in kept : i >= j)

\* str(v) of a cell value: a text, or None
Str(v) == IF v = None THEN <<"N", "o", "n", "e">> ELSE v[1]

\* filename.rsplit(".", 1)[0] if "." in filename else filename
BaseName(filename) ==
    LET dots == {i \in 1..Len(filename) : filename[i] = "."}
    IN  IF dots = {} THEN filename
        ELSE SubSeq(filename, 1, (CHOOSE i \in dots : \A j \in dots : i >= j) - 1)

\* An uploaded file: its name, the size of its content and the model the
\* external parser reads from the content when it does not fail.
Uploadable ==
    {[filename |-> FileGasCob, size |-> 10, model |-> 1],
     [filename |-> FileShort, size |-> 10, model |-> 2]}

Rejectable ==
    {[filename |-> FileTxt, size |-> 10, model |-> 1],
     [filename |-> FileGasCob, size |-> 0, model |-> 1],
     [filename |-> FileGasCob, size |-> MAX_FILE_SIZE + 1, model |-> 1]}

\* "VG076-GAS-XYZ01.ifc": its stage code is not a column of the spreadsheet
FileGasXyz ==
    <<"V", "G", "0", "7", "6", "-", "G", "A", "S", "-", "X", "Y", "Z", "0", "1",
      ".", "i", "f", "c">>

\* the model files uploaded ahead of a validation run
Validatable ==
    Uploadable \cup {[filename |-> FileGasXyz, size |-> 10, model |-> 3]}

\* what parse_ifc can raise (str(e))
Failures == {"corrupt"}

Files == Uploadable \cup Rejectable

\* ------------------------------------------------------------------ state
VARIABLES
    heap,       \* the session dicts still referenced, by the id they were created under
    sessions,   \* the keys of SessionManager._sessions
    nextSid,    \* number of the next session id (uuid4: never reused)
    clock,      \* time.time()
    nextJob,    \* number of the next job id (uuid4: never reused)
    workers,    \* the ingestion threads that are running, by job number
    h,          \* frame of the handler that owns the event loop
    suspended,  \* frames of the handlers that wait at an `await`
    callers,    \* the threads that call update_session side by side
    input,      \* the arguments of a function of excel_validator on its own
    output      \* what the function returned for them

vars ==
    <<heap, sessions, nextSid, clock, nextJob, workers, h, suspended, callers,
      input, output>>

SessionIds == 1..MaxSessions
JobIds == 1..MaxUploads
\* an id no session was ever created under
UnknownSid == 0
\* a job id no upload ever returned
UnknownJob == 0

\* ---------------------------------------------------------- session store
\* SessionManager.create_session: the dict of a new session
NewSession(now) ==
    [created_at |-> now,
     ifc_index |-> None,
     ifc_filename |-> None,
     job_id |-> None,
     job_status |-> "idle",
     job_progress |-> 0,
     job_message |-> "",
     validation_results |-> None]

\* Merge as dict.setdefault would do it: a field the dict has keeps its value
MergeKeepingExisting(d, kwargs) ==
    [f \in DOMAIN d \cup DOMAIN kwargs |->
        IF f \in DOMAIN d THEN d[f] ELSE kwargs[f]]

\* dict.update(kwargs): a shallow merge
Merge(d, kwargs) ==
    [f \in DOMAIN d \cup DOMAIN kwargs |->
        IF f \in DOMAIN kwargs THEN kwargs[f] ELSE d[f]]

\* UpdatedHeap refusing a session that has outlived its TTL
UpdatedHeapWhileFresh(hp, keys, sid, kwargs) ==
    IF sid \notin keys \/ clock - hp[sid].created_at > TTL THEN hp
    ELSE [hp EXCEPT ![sid] = Merge(hp[sid], kwargs)]

\* SessionManager.update_session: the dicts after the call
UpdatedHeap(hp, keys, sid, kwargs) ==
    IF sid \notin keys THEN hp
    ELSE [hp EXCEPT ![sid] = Merge(hp[sid], kwargs)]

\* SessionManager.update_session: its return value
UpdateOk(keys, sid) == sid \in keys

\* SessionManager._cleanup_expired: the keys it deletes
Expired(hp, keys, now) ==
    {sid \in keys : now - hp[sid].created_at > TTL}

\* SessionManager.delete_session / the del of _cleanup_expired
Remaining(keys, gone) == keys \ gone

\* ------------------------------------------------------------ the clock
\* Time passes in leaps of just over one TTL, so that a session outlives its
\* TTL after one leap.
Leap == TTL + 1

\* time.time() has advanced by d, up to the instant `last`
Tick(d, last) ==
    /\ clock + d <= last
    /\ clock' = clock + d
    /\ UNCHANGED <<heap, sessions, nextSid, nextJob, workers, h, suspended,
                 callers, input, output>>

\* job jid is the job a poll finds in session sid
Current(sid, jid) == sid \in sessions /\ heap[sid].job_id = Some(jid)

\* ------------------------------------------------------- handler frames
Idle ==
    [op |-> "none", pc |-> "idle", session_id |-> None, job_id |-> 0,
     file |-> None, kwargs |-> <<>>, now |-> 0, expired |-> {},
     session |-> None, local |-> None, out |-> None]

\* the session dict a frame's local `session` refers to
Ref(f) == heap[f.session[1]]

\* a handler returns (or raises HTTPException with) response r: the frame keeps
\* the request's arguments and what get_session gave it, next to the response
Returned(f, r) ==
    [Idle EXCEPT !.op = f.op, !.pc = "returned", !.session_id = f.session_id,
                 !.job_id = f.job_id, !.kwargs = f.kwargs, !.session = f.session,
                 !.out = Some(r)]

\* the response is sent and the frame is dropped: the event loop is free
HandlerExit ==
    /\ h.pc = "returned"
    /\ h' = Idle
    /\ UNCHANGED <<heap, sessions, nextSid, clock, nextJob, workers, suspended,
                 callers, input, output>>

\* get_session, step 1: _cleanup_expired reads the time (line 55); it is the
\* first thing a handler that calls get_session does
GetNow(f) == [f EXCEPT !.now = clock, !.pc = "get_purge"]

\* the dicts that stay alive when `keys` are the keys left in _sessions: the
\* ones in the store and the ones a handler still holds a reference to
Alive(hp, keys, frames) ==
    [sid \in keys \cup {f.session[1] : f \in {g \in frames : g.session # None}} |->
        hp[sid]]

\* get_session, step 2: _cleanup_expired purges under the lock (lines 56-62)
GetPurge ==
    /\ h.pc = "get_purge"
    /\ sessions' = Remaining(sessions, Expired(heap, sessions, h.now))
    /\ heap' = Alive(heap, sessions', {h} \cup suspended)
    /\ h' = [h EXCEPT !.pc = "get_lookup",
                      !.expired = Expired(heap, sessions, h.now)]
    /\ UNCHANGED <<nextSid, clock, nextJob, workers, suspended, callers, input, output>>

\* get_session, step 3: the lookup under the lock (lines 37-38); the locals of
\* _cleanup_expired are gone
Lookup(keys, sid) == IF sid \in keys THEN Some(sid) ELSE None

GetLookup ==
    /\ h.pc = "get_lookup"
    /\ h' = [h EXCEPT !.session = Lookup(sessions, h.session_id[1]),
                      !.now = 0, !.expired = {}, !.pc = "got"]
    /\ UNCHANGED <<heap, sessions, nextSid, clock, nextJob, workers, suspended,
                 callers, input, output>>

\* ------------------------------------------------------------- upload_ifc
NotFound(detail) == [code |-> 404, detail |-> detail]
BadRequest(detail) == [code |-> 400, detail |-> detail]

\* upload_ifc lines 53-63: the checks before a session is touched
UploadRejection(file) ==
    IF ~EndsWith(Lower(file.filename), DotIfc) THEN Some("Apenas arquivos .ifc")
    ELSE IF file.size > MAX_FILE_SIZE THEN Some("Arquivo excede")
    ELSE IF file.size = 0 THEN Some("Arquivo vazio")
    ELSE None

\* the event loop resumes upload_ifc after `await file.read()` (lines 53-67):
\* the checks, `if session_id:` and the time read of get_session
UploadBegin(file, sidArg) ==
    /\ h.pc = "idle"
    /\ nextJob <= MaxUploads
    /\ IF UploadRejection(file) # None
       THEN h' = Returned([Idle EXCEPT !.op = "upload_ifc", !.session_id = sidArg],
                          BadRequest(UploadRejection(file)[1]))
       ELSE LET f == [Idle EXCEPT !.op = "upload_ifc", !.session_id = sidArg,
                                  !.file = Some(file), !.pc = "create"]
            IN  h' = IF sidArg # None THEN GetNow(f) ELSE f
    /\ UNCHANGED <<heap, sessions, nextSid, clock, nextJob, workers, suspended,
                 callers, input, output>>

ResetFields ==
    [ifc_index |-> None, ifc_filename |-> None, job_status |-> "queued",
     job_progress |-> 0, job_message |-> "Novo arquivo recebido",
     validation_results |-> None]

\* upload_ifc lines 68-77: `if session:`, the reset of a reused session
UploadReset ==
    /\ h.op = "upload_ifc" /\ h.pc = "got" /\ h.session # None
    /\ heap' = UpdatedHeap(heap, sessions, h.session_id[1], ResetFields)
    /\ h' = [h EXCEPT !.pc = "job"]
    /\ UNCHANGED <<sessions, nextSid, clock, nextJob, workers, suspended,
                 callers, input, output>>

\* uuid4 of create_session: an id never used before
FreshSid == nextSid

\* upload_ifc lines 78-81: no session id given, or none found: create_session
UploadCreate ==
    /\ h.op = "upload_ifc"
    /\ h.pc = "create" \/ (h.pc = "got" /\ h.session = None)
    /\ FreshSid <= MaxSessions
    /\ heap' = [sid \in DOMAIN heap \cup {FreshSid} |->
                  IF sid = FreshSid THEN NewSession(clock) ELSE heap[sid]]
    /\ sessions' = sessions \cup {FreshSid}
    /\ nextSid' = nextSid + 1
    /\ h' = [h EXCEPT !.session_id = Some(FreshSid), !.pc = "job"]
    /\ UNCHANGED <<clock, nextJob, workers, suspended, callers, input, output>>

\* upload_ifc lines 83-99: a new job id is recorded in the session, the file
\* is saved and the worker thread is started
UploadJob ==
    /\ h.op = "upload_ifc" /\ h.pc = "job"
    /\ heap' = UpdatedHeap(heap, sessions, h.session_id[1], [job_id |-> Some(nextJob)])
    /\ nextJob' = nextJob + 1
    /\ workers' = [j \in DOMAIN workers \cup {nextJob} |->
                     IF j = nextJob
                     THEN [session_id |-> h.session_id[1], file |-> h.file[1],
                           pc |-> "start"]
                     ELSE workers[j]]
    /\ h' = [h EXCEPT !.job_id = nextJob, !.pc = "return"]
    /\ UNCHANGED <<sessions, nextSid, clock, suspended, callers, input, output>>

\* upload_ifc lines 101-107: the response
UploadReturn ==
    /\ h.op = "upload_ifc" /\ h.pc = "return"
    /\ h' = Returned(h, [code |-> 200, session_id |-> h.session_id[1],
                          file_name |-> h.file[1].filename, status |-> "queued",
                          job_id |-> h.job_id])
    /\ UNCHANGED <<heap, sessions, nextSid, clock, nextJob, workers, suspended,
                 callers, input, output>>

\* -------------------------------------------------------- _process_ifc_async
\* RunningFields leaving the progress as it is
RunningFieldsStatusOnly ==
    [job_status |-> "running", job_message |-> "Parsing IFC..."]

RunningFields ==
    [job_status |-> "running", job_progress |-> 10, job_message |-> "Parsing IFC..."]

DoneFields(w) ==
    [ifc_index |-> Some(w.file.model), ifc_filename |-> Some(w.file.filename),
     job_status |-> "done", job_progress |-> 100,
     job_message |-> "Processamento concluido"]

\* ErrorFields losing the failure detail
ErrorFieldsNoDetail(e) ==
    [job_status |-> "error", job_progress |-> 0,
     job_message |-> <<"Erro no processamento: ", "">>]

ErrorFields(e) ==
    [job_status |-> "error", job_progress |-> 0,
     job_message |-> <<"Erro no processamento: ", e>>]

\* the thread of job j ends: it is no longer among the running threads
Exited(j) == [k \in DOMAIN workers \ {j} |-> workers[k]]

\* WorkerRunning writing through to a session that has left the store
WorkerRunningRestoring(j) ==
    /\ workers[j].pc = "start"
    /\ sessions' = sessions \cup {workers[j].session_id}
    /\ heap' = [sid \in DOMAIN heap \cup {workers[j].session_id} |->
                  IF sid # workers[j].session_id THEN heap[sid]
                  ELSE Merge(IF sid \in DOMAIN heap THEN heap[sid]
                             ELSE NewSession(clock), RunningFields)]
    /\ workers' = [workers EXCEPT ![j].pc = "parsing"]
    /\ UNCHANGED <<nextSid, clock, nextJob, h, suspended,
                 callers, input, output>>

\* _process_ifc_async lines 23-25
WorkerRunning(j) ==
    /\ workers[j].pc = "start"
    /\ heap' = UpdatedHeap(heap, sessions, workers[j].session_id, RunningFields)
    /\ workers' = [workers EXCEPT ![j].pc = "parsing"]
    /\ UNCHANGED <<sessions, nextSid, clock, nextJob, h, suspended,
                 callers, input, output>>

\* WorkerDone with a job-epoch check: the result is committed only while the
\* session still records the worker's own job id
WorkerDoneIfCurrent(j) ==
    /\ workers[j].pc = "parsing"
    /\ heap' = IF Current(workers[j].session_id, j)
               THEN UpdatedHeap(heap, sessions, workers[j].session_id,
                                DoneFields(workers[j]))
               ELSE heap
    /\ workers' = Exited(j)
    /\ UNCHANGED <<sessions, nextSid, clock, nextJob, h, suspended,
                 callers, input, output>>

\* _process_ifc_async lines 26-34: parse_ifc returned an index
WorkerDone(j) ==
    /\ workers[j].pc = "parsing"
    /\ heap' = UpdatedHeap(heap, sessions, workers[j].session_id, DoneFields(workers[j]))
    /\ workers' = Exited(j)
    /\ UNCHANGED <<sessions, nextSid, clock, nextJob, h, suspended,
                 callers, input, output>>

\* _process_ifc_async lines 26, 35-47: parse_ifc raised
WorkerError(j, e) ==
    /\ workers[j].pc = "parsing"
    /\ heap' = UpdatedHeap(heap, sessions, workers[j].session_id, ErrorFields(e))
    /\ workers' = Exited(j)
    /\ UNCHANGED <<sessions, nextSid, clock, nextJob, h, suspended,
                 callers, input, output>>

\* ---------------------------------------------------------- get_job_status
\* get_job_status line 113: the handler is entered, get_session reads the time
PollBegin(sid, jid) ==
    /\ h.pc = "idle"
    /\ h' = GetNow([Idle EXCEPT !.op = "poll", !.session_id = Some(sid),
                                !.job_id = jid])
    /\ UNCHANGED <<heap, sessions, nextSid, clock, nextJob, workers, suspended,
                 callers, input, output>>

\* get_job_status lines 114-115
PollNoSession ==
    /\ h.op = "poll" /\ h.pc = "got" /\ h.session = None
    /\ h' = Returned(h, NotFound("Sessao nao encontrada."))
    /\ UNCHANGED <<heap, sessions, nextSid, clock, nextJob, workers, suspended,
                 callers, input, output>>

\* PollCheckJob without the comparison of job ids
PollCheckJobAny ==
    /\ h.op = "poll" /\ h.pc = "got" /\ h.session # None
    /\ h' = [h EXCEPT !.pc = "status"]
    /\ UNCHANGED <<heap, sessions, nextSid, clock, nextJob, workers, suspended,
                 callers, input, output>>

\* get_job_status lines 117-118
PollCheckJob ==
    /\ h.op = "poll" /\ h.pc = "got" /\ h.session # None
    /\ IF Ref(h).job_id # Some(h.job_id)
       THEN h' = Returned(h, NotFound("Job nao encontrado nesta sessao."))
       ELSE h' = [h EXCEPT !.pc = "status"]
    /\ UNCHANGED <<heap, sessions, nextSid, clock, nextJob, workers, suspended,
                 callers, input, output>>

\* get_job_status lines 120-124: the response is built from the session dict
PollReturn ==
    /\ h.op = "poll" /\ h.pc = "status"
    /\ h' = Returned(h, [code |-> 200, status |-> Ref(h).job_status,
                          progress |-> Ref(h).job_progress,
                          message |-> Ref(h).job_message])
    /\ UNCHANGED <<heap, sessions, nextSid, clock, nextJob, workers, suspended,
                 callers, input, output>>

\* ------------------------------------------------------- excel_validator
\* ExtractDisciplineStage that keeps the extension in the name
ExtractDisciplineStageOfName(filename) ==
    IF Len(filename) < 13
    THEN [error |-> Some(<<"Nome de arquivo fora do padrao esperado", filename>>),
          discipline |-> <<>>, stage |-> <<>>]
    ELSE [error |-> None,
          discipline |-> SubSeq(filename, 7, 9), stage |-> SubSeq(filename, 11, 13)]

\* extract_discipline_stage: characters 7-9 and 11-13 of the name without its
\* extension, or the ValueError of a name shorter than 13 characters
ExtractDisciplineStage(filename) ==
    LET base == BaseName(filename)
    IN  IF Len(base) < 13
        THEN [error |-> Some(<<"Nome de arquivo fora do padrao esperado", filename>>),
              discipline |-> <<>>, stage |-> <<>>]
        ELSE [error |-> None,
              discipline |-> SubSeq(base, 7, 9), stage |-> SubSeq(base, 11, 13)]

STAGE_COLUMNS ==
    {<<"E", "M", "B">>, <<"T", "O", "R">>, <<"D", "P", "X">>, <<"C", "O", "B">>,
     <<"A", "C">>, <<"F", "A", "C">>}

\* "DISCIPLINA CATEGORIZADA"
ColDisciplina ==
    <<"D", "I", "S", "C", "I", "P", "L", "I", "N", "A", " ", "C", "A", "T",
      "E", "G", "O", "R", "I", "Z", "A", "D", "A">>
\* "CATEGORIA IFC"
ColCategoria ==
    <<"C", "A", "T", "E", "G", "O", "R", "I", "A", " ", "I", "F", "C">>
\* "Pset"
ColPset == <<"P", "s", "e", "t">>
\* "PROPRIEDADE IFC"
ColPropriedade ==
    <<"P", "R", "O", "P", "R", "I", "E", "D", "A", "D", "E", " ", "I", "F",
      "C">>

\* dict.get(key, default) on a row of the spreadsheet
Get(row, key, default) == IF key \in DOMAIN row THEN row[key] ELSE default

\* the text parse_excel_rules reads from a column of a row
Field(row, key) == Strip(Str(Get(row, key, Some(<<>>))))

\* parse_excel_rules: the rows it keeps (lines 46-56)
KeptRow(row, discipline) ==
    /\ Field(row, ColDisciplina) = discipline
    /\ Field(row, ColCategoria) # <<>>
    /\ Field(row, ColPset) # <<>>
    /\ Field(row, ColPropriedade) # <<>>

\* parse_excel_rules: the rule of a row it keeps (lines 50-63)
RuleOf(row, stage) ==
    [category |-> Field(row, ColCategoria), pset |-> Field(row, ColPset),
     property |-> Field(row, ColPropriedade),
     expected |-> IF Get(row, Upper(stage), None) # None
                  THEN Field(row, Upper(stage)) ELSE <<>>]

\* parse_excel_rules: the rules of a discipline and a stage, or the ValueError
\* of a stage that is not a column
ParseExcelRules(rows, discipline, stage) ==
    IF Upper(stage) \notin STAGE_COLUMNS
    THEN [error |-> Some(<<"Etapa nao reconhecida", stage>>), rules |-> <<>>]
    ELSE LET kept == SelectSeq(rows, LAMBDA row : KeptRow(row, discipline))
         IN  [error |-> None,
              rules |-> [i \in 1..Len(kept) |-> RuleOf(kept[i], stage)]]

\* ---------------------------------------------------- parse_expected_value
Whitespace == {" ", "\t", "\n"}

\* "NÃO SE APLICA"
NaoSeAplica ==
    <<"N", "Ã", "O", " ", "S", "E", " ", "A", "P", "L", "I", "C", "A">>
\* "SIM"
Sim == <<"S", "I", "M">>

\* str.split(sep): the pieces between the separators, empty pieces included
Split(s, sep) ==
    LET cuts == {i \in 1..Len(s) : s[i] = sep}
        n == Cardinality(cuts)
        Cut(k) == IF k = 0 THEN 0
                  ELSE IF k = n + 1 THEN Len(s) + 1
                  ELSE CHOOSE i \in cuts : Cardinality({j \in cuts : j < i}) = k - 1
    IN  [k \in 1..(n + 1) |-> SubSeq(s, Cut(k - 1) + 1, Cut(k) - 1)]

\* [item.strip() for item in text.split(",")]
Items(text) ==
    LET pieces == Split(text, ",")
    IN  [k \in 1..Len(pieces) |-> Strip(pieces[k])]

\* "." of the pattern: any character but a newline
Dots(s) == \A i \in 1..Len(s) : s[i] # "\n"

\* (?:\s*\(.+?\))?$ : nothing, or blanks and a parenthetical that ends the text
LabelMatch(rest) ==
    \/ rest = <<>>
    \/ \E j \in 1..Len(rest) :
          /\ \A i \in 1..(j - 1) : rest[i] \in Whitespace
          /\ rest[j] = "("
          /\ rest[Len(rest)] = ")"
          /\ Len(rest) - j >= 2
          /\ Dots(SubSeq(rest, j + 1, Len(rest) - 1))

\* re.match(r'^\[(.+?)\](?:\s*\(.+?\))?$', s): group 1 of the match, or None.
\* The group is lazy: it ends at the first "]" after which the rest matches.
ListMatch(s) ==
    LET closes == {k \in 3..Len(s) :
                      /\ s[1] = "["
                      /\ s[k] = "]"
                      /\ Dots(SubSeq(s, 2, k - 1))
                      /\ LabelMatch(SubSeq(s, k + 1, Len(s)))}
    IN  IF closes = {} THEN None
        ELSE Some(SubSeq(s, 2, (CHOOSE k \in closes : \A j \in closes : k <= j) - 1))

\* IsIgnore that knows the upper-case spelling only
IsIgnoreSameCase(expected) ==
    \/ expected = <<>>
    \/ Strip(expected) = <<>>
    \/ Strip(expected) = NaoSeAplica

\* parse_expected_value lines 73-77: the texts that are not checked
IsIgnore(expected) ==
    \/ expected = <<>>
    \/ Strip(expected) = <<>>
    \/ Upper(Strip(expected)) = NaoSeAplica

Predicate(type, values) == [type |-> type, values |-> values]

\* parse_expected_value
ParseExpectedValue(expected) ==
    IF IsIgnore(expected) THEN Predicate("ignore", <<>>)
    ELSE IF Upper(Strip(expected)) = Sim THEN Predicate("exists", <<>>)
    ELSE IF ListMatch(Strip(expected)) # None
    THEN Predicate("list", Items(ListMatch(Strip(expected))[1]))
    ELSE IF /\ \E i \in 1..Len(expected) : expected[i] = ","
            /\ ~(Len(expected) > 0 /\ expected[1] = "[")
            /\ Len(Items(expected)) > 1
    THEN Predicate("list", Items(expected))
    ELSE Predicate("exact", <<expected>>)

\* ------------------------------------------------------- validate_element
\* An element of the model index is a dict; a property value is a text or
\* None. A result is the dict validate_element appends for one rule.
Result(element, rule, actual, status, reason) ==
    [global_id |-> Get(element, "global_id", <<>>),
     step_id |-> Get(element, "step_id", None),
     entity_type |-> Get(element, "entity_type", <<>>),
     name |-> Get(element, "name", <<>>),
     pset |-> rule.pset, property |-> rule.property,
     expected |-> rule.expected,
     actual |-> actual, status |-> status, reason |-> reason]

\* Applies without regard to letter case
AppliesAnyCase(rule, entity_type) ==
    Lower(rule.category) = Lower(entity_type)

\* validate_element line 107: the rules that apply to an entity type
Applies(rule, entity_type) == rule.category = entity_type

\* Absence that takes a key with a null value for a value
AbsenceOfKeys(psets, rule) ==
    IF rule.pset \notin DOMAIN psets THEN Some("Pset ausente")
    ELSE IF rule.property \notin DOMAIN psets[rule.pset][1]
    THEN Some("Propriedade ausente")
    ELSE None

\* validate_element lines 128-159: what is missing on the element for a rule,
\* if anything is
Absence(psets, rule) ==
    IF Get(psets, rule.pset, None) = None THEN Some("Pset ausente")
    ELSE IF Get(Get(psets, rule.pset, None)[1], rule.property, None) = None
    THEN Some("Propriedade ausente")
    ELSE None

\* ActualStr without the trimming
ActualStrRaw(actual_value) == Str(actual_value)

\* validate_element line 161: str(actual_value).strip()
ActualStr(actual_value) == Strip(Str(actual_value))

\* validate_element lines 164-249: whether the value meets the predicate, and
\* the reason if it does not
Verdict(parsed, actual_str, rule) ==
    IF parsed.type = "exists"
    THEN IF actual_str = <<>> \/ Lower(actual_str) = <<"n", "o", "n", "e">>
         THEN <<"Não Conforme", "Valor ausente">>
         ELSE <<"Conforme", "">>
    ELSE IF parsed.type = "list"
    THEN IF \E i \in 1..Len(parsed.values) : parsed.values[i] = actual_str
         THEN <<"Conforme", "">>
         ELSE <<"Não Conforme", "Fora da lista permitida">>
    ELSE IF actual_str = rule.expected
         THEN <<"Conforme", "">>
         ELSE <<"Não Conforme", "Valor divergente">>

\* validate_element lines 110-249: the result of one rule that applies
ResultOf(element, rule) ==
    LET parsed == ParseExpectedValue(rule.expected)
        psets == Get(element, "psets", <<>>)
        absence == Absence(psets, rule)
        actual_value == Get(Get(psets, rule.pset, None)[1], rule.property, None)
        verdict == Verdict(parsed, ActualStr(actual_value), rule)
    IN  IF parsed.type = "ignore"
        THEN Result(element, rule, None, "Ignorado", "")
        ELSE IF absence # None
        THEN Result(element, rule, None, "Não Conforme", absence[1])
        ELSE Result(element, rule, Some(ActualStr(actual_value)),
                    verdict[1], verdict[2])

\* validate_element: one result for each rule that applies, in rule order
ValidateElement(element, rules) ==
    LET entity_type == Get(element, "entity_type", <<>>)
        applied == SelectSeq(rules, LAMBDA rule : Applies(rule, entity_type))
    IN  [i \in 1..Len(applied) |-> ResultOf(element, applied[i])]

\* --------------------------------------------------------- run_validation
\* run_validation lines 259-262: the results of all elements, in order
RECURSIVE AllResults(_, _)
AllResults(elements, rules) ==
    IF elements = <<>> THEN <<>>
    ELSE ValidateElement(Head(elements), rules) \o AllResults(Tail(elements), rules)

NonIgnored(all_results) == SelectSeq(all_results, LAMBDA r : r.status # "Ignorado")
Conformes(non_ignored) == SelectSeq(non_ignored, LAMBDA r : r.status = "Conforme")
NaoConformes(non_ignored) ==
    SelectSeq(non_ignored, LAMBDA r : r.status = "Não Conforme")

\* run_validation line 270: the global ids of the results that are checked;
\* a result without a global id (empty or None) is left out
EvaluatedGuids(non_ignored) ==
    {non_ignored[i].global_id : i \in DOMAIN non_ignored} \ {<<>>}

\* ConformeGuids that asks for one met result only
ConformeGuidsAny(non_ignored) ==
    {guid \in EvaluatedGuids(non_ignored) :
        \E i \in DOMAIN non_ignored :
            /\ non_ignored[i].global_id = guid
            /\ non_ignored[i].status = "Conforme"}

\* run_validation lines 271-278: the ids all of whose checked results are met
ConformeGuids(non_ignored) ==
    {guid \in EvaluatedGuids(non_ignored) :
        \A i \in DOMAIN non_ignored :
            non_ignored[i].global_id = guid => non_ignored[i].status = "Conforme"}

NaoConformeGuids(non_ignored) ==
    EvaluatedGuids(non_ignored) \ ConformeGuids(non_ignored)

\* Counters that take the results that are not met for the total
CountersOfFailures(results) ==
    [total |-> Len(results) - Len(Conformes(results)),
     conforme |-> Len(Conformes(results)),
     nao_conforme |-> Len(results) - Len(Conformes(results))]

\* the counters of a group of results (lines 285-290, 297-302)
Counters(results) ==
    [total |-> Len(results), conforme |-> Len(Conformes(results)),
     nao_conforme |-> Len(results) - Len(Conformes(results))]

\* run_validation lines 281-290
ByEntity(non_ignored) ==
    [et \in {non_ignored[i].entity_type : i \in DOMAIN non_ignored} |->
        Counters(SelectSeq(non_ignored, LAMBDA r : r.entity_type = et))]

\* f"{r['pset']}.{r['property']}"
PropertyKey(r) == r.pset \o <<".">> \o r.property

\* run_validation lines 293-302
ByProperty(non_ignored) ==
    [key \in {PropertyKey(non_ignored[i]) : i \in DOMAIN non_ignored} |->
        Counters(SelectSeq(non_ignored, LAMBDA r : PropertyKey(r) = key))]

\* run_validation lines 305-308
ByReason(nao_conformes) ==
    [reason \in {nao_conformes[i].reason : i \in DOMAIN nao_conformes} |->
        Len(SelectSeq(nao_conformes, LAMBDA r : r.reason = reason))]

\* PercentOutcomes that cuts the digits after the first decimal off
PercentOutcomesCut(part, whole) ==
    {(part * 1000) \div (IF whole > 1 THEN whole ELSE 1)}

\* round(part / max(whole, 1) * 100, 1), in tenths of a percent: the tenth
\* nearest to the quotient. When the quotient lies halfway between two tenths
\* the error of the binary floating-point division and multiplication decides
\* which of the two round() returns, so both are outcomes; this needs a whole
\* that is a multiple of 16.
PercentOutcomes(part, whole) ==
    LET d == IF whole > 1 THEN whole ELSE 1
        q == (part * 1000) \div d
        r == (part * 1000) % d
    IN  IF 2 * r > d THEN {q + 1}
        ELSE IF 2 * r < d THEN {q}
        ELSE {q, q + 1}

\* the percentage of a summary; the summaries of the runs of the model have
\* fewer than 16 evaluated elements, where it is the one outcome
PercentTenths(part, whole) == CHOOSE p \in PercentOutcomes(part, whole) : TRUE

\* run_validation lines 310-318
Summary(non_ignored) ==
    [total_evaluated_elements |-> Cardinality(EvaluatedGuids(non_ignored)),
     total_conforme_elements |-> Cardinality(ConformeGuids(non_ignored)),
     total_nao_conforme_elements |-> Cardinality(NaoConformeGuids(non_ignored)),
     percent_conforme |->
        PercentTenths(Cardinality(ConformeGuids(non_ignored)),
                      Cardinality(EvaluatedGuids(non_ignored))),
     total_rules_applied |-> Len(non_ignored),
     total_conformes |-> Len(Conformes(non_ignored)),
     total_nao_conformes |-> Len(NaoConformes(non_ignored))]

\* run_validation: the report of the elements against the rules
RunValidation(elements, rules) ==
    LET all_results == AllResults(elements, rules)
        non_ignored == NonIgnored(all_results)
    IN  [summary |-> Summary(non_ignored),
         by_entity |-> ByEntity(non_ignored),
         by_property |-> ByProperty(non_ignored),
         by_reason |-> ByReason(NaoConformes(non_ignored)),
         issues |-> NaoConformes(non_ignored),
         all_results |-> all_results]

\* The index the external parser builds of a model file: the elements of the
\* model with the given number. Model 1 holds a pipe whose property Q of the
\* property set P is "X", and a wall without property sets.
IndexElements(index) ==
    IF index = 1
    THEN <<[global_id |-> <<"g", "1">>, step_id |-> Some(1),
            entity_type |-> <<"I", "f", "c", "P", "i", "p", "e">>,
            name |-> <<"T", "1">>,
            psets |-> (<<"P">> :> Some(<<"Q">> :> Some(<<"X">>)))],
           [global_id |-> <<"g", "2">>, step_id |-> Some(2),
            entity_type |-> <<"I", "f", "c", "W", "a", "l", "l">>,
            name |-> <<>>, psets |-> <<>>]>>
    ELSE <<>>

\* ----------------------------------------------------------- upload_excel
\* The detail of an answer of upload_excel is a tuple: the text of the
\* message, then the values formatted into it.
\* A spreadsheet upload: its name, whether load_workbook can read it, the
\* cells of its first row and the cells of the rows below.
Gas == <<"G", "A", "S">>
Cob == <<"C", "O", "B">>

HeaderCells ==
    <<Some(ColDisciplina), Some(ColCategoria), Some(ColPset),
      Some(ColPropriedade), Some(Cob)>>

\* a rule of discipline GAS with an expected value for stage COB
RowGas ==
    <<Some(<<"G", "A", "S", " ">>), Some(<<"I", "f", "c", "P", "i", "p", "e">>),
      Some(<<"P">>), Some(<<"Q">>), Some(<<"X">>)>>
\* a rule of discipline ELE
RowEle ==
    <<Some(<<"E", "L", "E">>), Some(<<"I", "f", "c", "P", "i", "p", "e">>),
      Some(<<"P">>), Some(<<"Q">>), None>>

\* "r.xlsx"
NameXlsx == <<"r", ".", "x", "l", "s", "x">>
\* "r.csv"
NameCsv == <<"r", ".", "c", "s", "v">>

SheetGas ==
    [filename |-> NameXlsx, readable |-> TRUE, header_cells |-> HeaderCells,
     rows |-> <<RowEle, RowGas>>]
SheetCsv == [SheetGas EXCEPT !.filename = NameCsv]
SheetNoPset ==
    [SheetGas EXCEPT !.header_cells =
        <<Some(ColDisciplina), Some(ColCategoria), None, Some(ColPropriedade),
          Some(Cob)>>]
SheetEle == [SheetGas EXCEPT !.rows = <<RowEle>>]

Sheets == {SheetGas, SheetCsv, SheetNoPset, SheetEle}

ServerError == [code |-> 500, detail |-> <<"Internal Server Error">>]

\* upload_excel line 23: the handler is entered, get_session reads the time;
\* the uploaded spreadsheet enters the frame where the handler first looks at
\* it, in ExcelCheck
ExcelBegin(sid) ==
    /\ h.pc = "idle"
    /\ Cardinality(suspended) < MaxPending
    /\ h' = GetNow([Idle EXCEPT !.op = "upload_excel", !.session_id = Some(sid)])
    /\ UNCHANGED <<heap, sessions, nextSid, clock, nextJob, workers, suspended,
                 callers, input, output>>

\* upload_excel lines 24-35: what the checks before the spreadsheet is read
\* raise, if they raise
ExcelRejection(f) ==
    IF f.session = None \/ Ref(f).ifc_index = None
    THEN Some(BadRequest(<<"Nenhum IFC processado nesta sessao. Carregue um IFC primeiro.">>))
    ELSE IF ~EndsWith(Lower(f.file[1].filename), DotXlsx)
    THEN Some(BadRequest(<<"Apenas arquivos .xlsx sao aceitos.">>))
    ELSE IF Ref(f).ifc_filename = None
    THEN Some(ServerError)
    ELSE IF ExtractDisciplineStage(Ref(f).ifc_filename[1]).error # None
    THEN Some(BadRequest(ExtractDisciplineStage(Ref(f).ifc_filename[1]).error[1]))
    ELSE None

\* upload_excel lines 24-38: the checks on the session get_session returned,
\* then `await file.read()` gives the event loop away
ExcelCheck(sheet) ==
    /\ h.op = "upload_excel" /\ h.pc = "got"
    /\ IF ExcelRejection([h EXCEPT !.file = Some(sheet)]) # None
       THEN /\ h' = Returned([h EXCEPT !.session = None],
                             ExcelRejection([h EXCEPT !.file = Some(sheet)])[1])
            /\ suspended' = suspended
       ELSE LET name == Ref(h).ifc_filename[1]
                found == ExtractDisciplineStage(name)
            IN  /\ h' = Idle
                /\ suspended' = suspended \cup
                     {[h EXCEPT !.pc = "read", !.file = Some(sheet),
                                !.local = Some([ifc_filename |-> name,
                                                discipline |-> found.discipline,
                                                stage |-> found.stage])]}
    /\ UNCHANGED <<heap, sessions, nextSid, clock, nextJob, workers,
                 callers, input, output>>

\* upload_excel lines 44-46: the headers of the first row
Headers(cells) ==
    [i \in 1..Len(cells) |->
        IF cells[i] = None \/ cells[i] = Some(<<>>) THEN <<>>
        ELSE Strip(Str(cells[i]))]

\* upload_excel lines 60-63: the dict of a row, by header
RowDict(headers, row) ==
    LET filled == {i \in 1..Len(row) : i <= Len(headers)}
    IN  [key \in {headers[i] : i \in filled} |->
           row[CHOOSE i \in filled :
                 /\ headers[i] = key
                 /\ \A j \in filled : headers[j] = key => j <= i]]

Required == <<ColDisciplina, ColCategoria, ColPset, ColPropriedade>>

\* upload_excel lines 39-82: what reading the spreadsheet and parsing its
\* rules raise, if they raise
ExcelFailure(sheet, headers, parsed, discipline, stage) ==
    LET missing ==
            SelectSeq(Required,
                      LAMBDA col : col \notin {headers[i] : i \in DOMAIN headers})
    IN  IF ~sheet.readable
        THEN Some(BadRequest(<<"Erro ao ler planilha">>))
        ELSE IF missing # <<>>
        THEN Some(BadRequest(<<"Colunas obrigatorias ausentes na planilha", missing>>))
        ELSE IF parsed.error # None
        THEN Some(BadRequest(parsed.error[1]))
        ELSE IF parsed.rules = <<>>
        THEN Some(BadRequest(<<"Nenhuma regra encontrada", discipline, stage>>))
        ELSE None

\* upload_excel lines 85-93: the report of the run with its metadata
Report(index, rules, local, sheet) ==
    [summary |-> RunValidation(IndexElements(index), rules).summary,
     discipline |-> local.discipline, stage |-> local.stage,
     ifc_filename |-> local.ifc_filename, excel_filename |-> sheet.filename,
     rules_count |-> Len(rules)]

\* ExcelRead emptying the validation results of the session before it reads
\* the spreadsheet
ExcelReadClearing(f) ==
    /\ h.pc = "idle"
    /\ f \in suspended
    /\ suspended' = suspended \ {f}
    /\ LET sheet == f.file[1]
           headers == Headers(sheet.header_cells)
           rows == [i \in 1..Len(sheet.rows) |-> RowDict(headers, sheet.rows[i])]
           parsed == ParseExcelRules(rows, f.local[1].discipline, f.local[1].stage)
           failure == ExcelFailure(sheet, headers, parsed, f.local[1].discipline,
                                   f.local[1].stage)
       IN  h' = IF failure # None
                THEN Returned([f EXCEPT !.session = None], failure[1])
                ELSE IF Ref(f).ifc_index = None
                THEN Returned([f EXCEPT !.session = None], ServerError)
                ELSE [f EXCEPT !.pc = "store",
                               !.local = Some(Report(Ref(f).ifc_index[1],
                                                     parsed.rules, f.local[1],
                                                     sheet))]
    /\ heap' = Alive(UpdatedHeap(heap, sessions, f.session_id[1],
                                 [validation_results |-> None]),
                     sessions, {h'} \cup suspended')
    /\ UNCHANGED <<sessions, nextSid, clock, nextJob, workers, callers, input, output>>

\* upload_excel lines 38-93: the event loop resumes the handler with the
\* content of the spreadsheet; the model index is read from the session dict
\* the handler holds, as it is by now
ExcelRead(f) ==
    /\ h.pc = "idle"
    /\ f \in suspended
    /\ suspended' = suspended \ {f}
    /\ LET sheet == f.file[1]
           headers == Headers(sheet.header_cells)
           rows == [i \in 1..Len(sheet.rows) |-> RowDict(headers, sheet.rows[i])]
           parsed == ParseExcelRules(rows, f.local[1].discipline, f.local[1].stage)
           failure == ExcelFailure(sheet, headers, parsed, f.local[1].discipline,
                                   f.local[1].stage)
       IN  h' = IF failure # None
                THEN Returned([f EXCEPT !.session = None], failure[1])
                ELSE IF Ref(f).ifc_index = None
                THEN Returned([f EXCEPT !.session = None], ServerError)
                ELSE [f EXCEPT !.pc = "store",
                               !.local = Some(Report(Ref(f).ifc_index[1],
                                                     parsed.rules, f.local[1],
                                                     sheet))]
    /\ heap' = Alive(heap, sessions, {h'} \cup suspended')
    /\ UNCHANGED <<sessions, nextSid, clock, nextJob, workers, callers, input, output>>

\* upload_excel lines 95-103: the report is stored under the session id and
\* the response is built
ExcelStore ==
    /\ h.op = "upload_excel" /\ h.pc = "store"
    /\ heap' = Alive(UpdatedHeap(heap, sessions, h.session_id[1],
                                 [validation_results |-> Some(h.local[1])]),
                     sessions, suspended)
    /\ h' = Returned([h EXCEPT !.session = None],
                     [code |-> 200, status |-> "done",
                      discipline |-> h.local[1].discipline,
                      stage |-> h.local[1].stage,
                      summary |-> h.local[1].summary,
                      rules_count |-> h.local[1].rules_count])
    /\ UNCHANGED <<sessions, nextSid, clock, nextJob, workers, suspended,
                 callers, input, output>>

\* ------------------------------------------------------------ the system
Init ==
    /\ heap = <<>>
    /\ sessions = {}
    /\ nextSid = 1
    /\ clock = 0
    /\ nextJob = 1
    /\ workers = <<>>
    /\ h = Idle
    /\ suspended = {}
    /\ callers = <<>>
    /\ input = None
    /\ output = None

\* session ids a client can name: the ones handed out, and one never created
KnownSids == 1..(nextSid - 1) \cup {UnknownSid}

\* job ids a client can name: the ones handed out, and one never allocated
KnownJobs == 1..(nextJob - 1) \cup {UnknownJob}

Next ==
    \/ Tick(Leap, MaxTicks * Leap)
    \/ \E file \in Files, sidArg \in {None} \cup {Some(s) : s \in KnownSids} :
          UploadBegin(file, sidArg)
    \/ GetPurge
    \/ GetLookup
    \/ UploadReset
    \/ UploadCreate
    \/ UploadJob
    \/ UploadReturn
    \/ \E j \in DOMAIN workers : WorkerRunning(j)
    \/ \E j \in DOMAIN workers : WorkerDone(j)
    \/ \E j \in DOMAIN workers, e \in Failures : WorkerError(j, e)
    \/ \E sid \in KnownSids, jid \in KnownJobs : PollBegin(sid, jid)
    \/ PollNoSession
    \/ PollCheckJob
    \/ PollReturn
    \/ HandlerExit

Spec == Init /\ [][Next]_vars

\* Uploads, their workers and validation runs, without the polls, for as long
\* as no session outlives its TTL
ValidationNext ==
    \/ \E file \in Validatable, sidArg \in {None} \cup {Some(s) : s \in KnownSids} :
          UploadBegin(file, sidArg)
    \/ GetPurge
    \/ GetLookup
    \/ UploadReset
    \/ UploadCreate
    \/ UploadJob
    \/ UploadReturn
    \/ \E j \in DOMAIN workers : WorkerRunning(j)
    \/ \E j \in DOMAIN workers : WorkerDone(j)
    \/ \E j \in DOMAIN workers, e \in Failures : WorkerError(j, e)
    \/ \E sid \in KnownSids : ExcelBegin(sid)
    \/ \E sheet \in Sheets : ExcelCheck(sheet)
    \/ \E f \in suspended : ExcelRead(f)
    \/ ExcelStore
    \/ HandlerExit

ValidationSpec == Init /\ [][ValidationNext]_vars

\* Threads that are started run: every worker thread gets scheduled, and the
\* event loop runs the handler it has entered.
Workers ==
    \/ \E j \in DOMAIN workers : WorkerRunning(j)
    \/ \E j \in DOMAIN workers : WorkerDone(j)
    \/ \E j \in DOMAIN workers, e \in Failures : WorkerError(j, e)

FairSpec == Spec /\ WF_vars(Workers)

\* ------------------------------------------------- the store and one client
\* A client of SessionManager that issues one call at a time, any call on any
\* id, while time passes in steps of one TTL.  create_session, update_session
\* and delete_session run under the lock in one step; get_session is the three
\* steps GetNow, GetPurge, GetLookup.

\* the `**kwargs` the client passes to update_session
StoreKwargs ==
    {RunningFields,
     DoneFields([file |-> [filename |-> FileShort, size |-> 10, model |-> 2]]),
     [job_id |-> Some(1)]}

\* the client takes the result of a call before time moves on
StoreTick ==
    /\ h.pc # "returned"
    /\ Tick(TTL, MaxStoreTicks * TTL)
    /\ UNCHANGED <<heap, sessions, nextSid, nextJob, workers, h, suspended,
                 callers, input, output>>

\* SessionManager.create_session (lines 20-33)
StoreCreate ==
    /\ h.pc = "idle"
    /\ FreshSid <= MaxStoreSessions
    /\ heap' = [sid \in DOMAIN heap \cup {FreshSid} |->
                  IF sid = FreshSid THEN NewSession(clock) ELSE heap[sid]]
    /\ sessions' = sessions \cup {FreshSid}
    /\ nextSid' = nextSid + 1
    /\ h' = Returned([Idle EXCEPT !.op = "create_session"], FreshSid)
    /\ UNCHANGED <<clock, nextJob, workers, suspended, callers, input, output>>

\* SessionManager.update_session (lines 40-45)
StoreUpdate(sid, kwargs) ==
    /\ h.pc = "idle"
    /\ heap' = UpdatedHeap(heap, sessions, sid, kwargs)
    /\ h' = Returned([Idle EXCEPT !.op = "update_session",
                                  !.session_id = Some(sid), !.kwargs = kwargs],
                     UpdateOk(sessions, sid))
    /\ UNCHANGED <<sessions, nextSid, clock, nextJob, workers, suspended,
                 callers, input, output>>

\* SessionManager.delete_session (lines 47-52)
StoreDelete(sid) ==
    /\ h.pc = "idle"
    /\ sessions' = IF sid \in sessions THEN Remaining(sessions, {sid})
                   ELSE sessions
    /\ heap' = Alive(heap, sessions', {})
    /\ h' = Returned([Idle EXCEPT !.op = "delete_session",
                                  !.session_id = Some(sid)],
                     sid \in sessions)
    /\ UNCHANGED <<nextSid, clock, nextJob, workers, suspended, callers, input, output>>

\* SessionManager.get_session is entered: the time read of line 55
StoreGetBegin(sid) ==
    /\ h.pc = "idle"
    /\ h' = GetNow([Idle EXCEPT !.op = "get_session", !.session_id = Some(sid)])
    /\ UNCHANGED <<heap, sessions, nextSid, clock, nextJob, workers, suspended,
                 callers, input, output>>

\* SessionManager.get_session returns what the lookup found (line 38)
StoreGetReturn ==
    /\ h.op = "get_session"
    /\ h.pc = "got"
    /\ h' = Returned(h, h.session)
    /\ UNCHANGED <<heap, sessions, nextSid, clock, nextJob, workers, suspended,
                 callers, input, output>>

StoreNext ==
    \/ StoreTick
    \/ StoreCreate
    \/ \E sid \in KnownSids, kwargs \in StoreKwargs : StoreUpdate(sid, kwargs)
    \/ \E sid \in KnownSids : StoreDelete(sid)
    \/ \E sid \in KnownSids : StoreGetBegin(sid)
    \/ GetPurge
    \/ GetLookup
    \/ StoreGetReturn
    \/ HandlerExit

StoreSpec == Init /\ [][StoreNext]_vars

\* ------------------------------------------- update_session, side by side
\* Threads call update_session at any time, each with a session id and its
\* `**kwargs`; a call waits for the lock, then runs lines 41-45 under it.  A
\* thread keeps the number of its turn at the lock.

\* a thread calls update_session(sid, **kwargs) and waits for the lock
CallUpdate(sid, kwargs) ==
    /\ Len(callers) < MaxCallers
    /\ callers' = Append(callers, [session_id |-> sid, kwargs |-> kwargs,
                                   pc |-> "lock", out |-> None, turn |-> 0])
    /\ UNCHANGED <<heap, sessions, nextSid, clock, nextJob, workers, h,
                   suspended, input, output>>

\* the calls that have had the lock
Committed == {u \in DOMAIN callers : callers[u].pc = "returned"}

\* CommitUpdate writing the given fields into a new dict for the session
CommitUpdateReplacing(t) ==
    /\ callers[t].pc = "lock"
    /\ heap' = IF callers[t].session_id \notin sessions THEN heap
               ELSE [heap EXCEPT ![callers[t].session_id] =
                        Merge(NewSession(@.created_at), callers[t].kwargs)]
    /\ callers' = [callers EXCEPT ![t].pc = "returned",
                                  ![t].out = Some(UpdateOk(sessions, callers[t].session_id)),
                                  ![t].turn = Cardinality(Committed) + 1]
    /\ UNCHANGED <<sessions, nextSid, clock, nextJob, workers, h, suspended,
                   input, output>>

\* SessionManager.update_session lines 41-45: thread t has the lock
CommitUpdate(t) ==
    /\ callers[t].pc = "lock"
    /\ heap' = UpdatedHeap(heap, sessions, callers[t].session_id, callers[t].kwargs)
    /\ callers' = [callers EXCEPT ![t].pc = "returned",
                                  ![t].out = Some(UpdateOk(sessions, callers[t].session_id)),
                                  ![t].turn = Cardinality(Committed) + 1]
    /\ UNCHANGED <<sessions, nextSid, clock, nextJob, workers, h, suspended,
                   input, output>>

RaceNext ==
    \/ StoreCreate
    \/ HandlerExit
    \/ \E sid \in KnownSids, kwargs \in StoreKwargs : CallUpdate(sid, kwargs)
    \/ \E t \in DOMAIN callers : CommitUpdate(t)

RaceSpec == Init /\ [][RaceNext]_vars

\* ------------------------------------------- validate_element, on its own
\* The state after construction, but for the input and the output of the
\* function under study.
Quiet ==
    /\ heap = <<>>
    /\ sessions = {}
    /\ nextSid = 1
    /\ clock = 0
    /\ nextJob = 1
    /\ workers = <<>>
    /\ h = Idle
    /\ suspended = {}
    /\ callers = <<>>

\* "IfcPipeSegment", "IfcWall"
IfcPipeSegment ==
    <<"I", "f", "c", "P", "i", "p", "e", "S", "e", "g", "m", "e", "n", "t">>
IfcWall == <<"I", "f", "c", "W", "a", "l", "l">>
\* "Pset_Gas", "Pressao"
PsetGas == <<"P", "s", "e", "t", "_", "G", "a", "s">>
Pressao == <<"P", "r", "e", "s", "s", "a", "o">>

\* property values: "A", " A ", "", "None", "X", and no value
PropertyValues ==
    {Some(<<"A">>), Some(<<" ", "A", " ">>), Some(<<>>),
     Some(<<"N", "o", "n", "e">>), Some(<<"X">>), None}

\* the property sets of an element: none, one without the property, one with
\* the property
PsetChoices ==
    {<<>>, PsetGas :> Some(<<>>)}
        \cup {PsetGas :> Some(Pressao :> v) : v \in PropertyValues}

ElementChoices ==
    {[global_id |-> <<"g", "1">>, step_id |-> Some(17), entity_type |-> et,
      name |-> <<"T", "1">>, psets |-> ps] :
        et \in {IfcPipeSegment, Lower(IfcPipeSegment)}, ps \in PsetChoices}

\* expected texts: "", " ", "não se aplica", "Sim", "A,B", "[A, B] (x)", "A"
ExpectedChoices ==
    {<<>>, <<" ">>,
     <<"n", "ã", "o", " ", "s", "e", " ", "a", "p", "l", "i", "c", "a">>,
     <<"S", "i", "m">>, <<"A", ",", "B">>,
     <<"[", "A", ",", " ", "B", "]", " ", "(", "x", ")">>, <<"A">>}

RuleChoices ==
    {[category |-> c, pset |-> PsetGas, property |-> Pressao, expected |-> e] :
        c \in {IfcPipeSegment, IfcWall}, e \in ExpectedChoices}

RuleLists == UNION {[1..n -> RuleChoices] : n \in 0..MaxRules}

ElementInit ==
    /\ Quiet
    /\ input \in {Some([element |-> e, rules |-> rs]) :
                     e \in ElementChoices, rs \in RuleLists}
    /\ output = None

ApplyValidateElement ==
    /\ input # None
    /\ output = None
    /\ output' = Some(ValidateElement(input[1].element, input[1].rules))
    /\ UNCHANGED <<heap, sessions, nextSid, clock, nextJob, workers, h,
                   suspended, callers, input>>

ElementNext == ApplyValidateElement

ElementSpec == ElementInit /\ [][ElementNext]_vars

\* --------------------------------------------- run_validation, on its own
\* "Material"
Material == <<"M", "a", "t", "e", "r", "i", "a", "l">>

\* pipes with the ids "g1" and "g2" and without an id (GlobalId unset), with
\* the value "A" and with the value "X"; a pipe without property sets; a wall
RunElementChoices ==
    {[global_id |-> g, step_id |-> Some(17), entity_type |-> IfcPipeSegment,
      name |-> <<"T", "1">>, psets |-> PsetGas :> Some(Pressao :> Some(v))] :
        g \in {<<"g", "1">>, <<"g", "2">>, <<>>}, v \in {<<"A">>, <<"X">>}}
    \cup
    {[global_id |-> <<"g", "2">>, step_id |-> Some(18),
      entity_type |-> IfcPipeSegment, name |-> <<"T", "2">>, psets |-> <<>>],
     [global_id |-> <<"g", "1">>, step_id |-> Some(19), entity_type |-> IfcWall,
      name |-> <<"W", "1">>, psets |-> PsetGas :> Some(Pressao :> Some(<<"A">>))]}

\* rules for pipes that are not checked, that ask for "A" and that ask for
\* any value, and a rule for walls that asks for a material
RunRuleChoices ==
    {[category |-> IfcPipeSegment, pset |-> PsetGas, property |-> Pressao,
      expected |-> e] : e \in {<<>>, <<"A">>, <<"S", "I", "M">>}}
    \cup
    {[category |-> IfcWall, pset |-> PsetGas, property |-> Material,
      expected |-> <<"S", "I", "M">>]}

RunInit ==
    /\ Quiet
    /\ input \in {Some([elements |-> es, rules |-> rs]) :
                     es \in UNION {[1..n -> RunElementChoices] : n \in 0..MaxElements},
                     rs \in UNION {[1..n -> RunRuleChoices] : n \in 0..MaxRunRules}}
    /\ output = None

\* run_validation returns; the sets of lines 270-278 are kept with the report
ApplyRunValidation ==
    /\ input # None
    /\ output = None
    /\ LET report == RunValidation(input[1].elements, input[1].rules)
           non_ignored == NonIgnored(report.all_results)
       IN  output' = Some([report |-> report,
                           evaluated_guids |-> EvaluatedGuids(non_ignored),
                           conforme_guids |-> ConformeGuids(non_ignored),
                           nao_conforme_guids |-> NaoConformeGuids(non_ignored)])
    /\ UNCHANGED <<heap, sessions, nextSid, clock, nextJob, workers, h,
                   suspended, callers, input>>

RunNext == ApplyRunValidation

RunSpec == RunInit /\ [][RunNext]_vars

\* ------------------------------------------- parse_excel_rules, on its own
\* rows as upload_excel builds them (lines 58-64): a dict from the headers to
\* the values of the cells, None for a cell without a value
RowChoices ==
    {(ColDisciplina :> d) @@ (ColCategoria :> c) @@ (ColPset :> p)
        @@ (ColPropriedade :> Some(<<"Q">>)) @@ (Cob :> e) :
        d \in {Some(<<"G", "A", "S", " ">>), Some(<<"g", "a", "s">>)},
        c \in {Some(<<"I", "f", "c", "P", "i", "p", "e", " ">>), Some(<<" ">>), None},
        p \in {Some(<<"P">>), None},
        e \in {Some(<<" ", "X", " ">>), None}}

\* stage codes: "COB", "cob", and "XYZ" that is no column
StageChoices == {Cob, Lower(Cob), <<"X", "Y", "Z">>}

RulesInit ==
    /\ Quiet
    /\ input \in {Some([rows |-> rows, discipline |-> Gas, stage |-> stage]) :
                     rows \in UNION {[1..n -> RowChoices] : n \in 0..MaxRows},
                     stage \in StageChoices}
    /\ output = None

ApplyParseExcelRules ==
    /\ input # None
    /\ output = None
    /\ output' = Some(ParseExcelRules(input[1].rows, input[1].discipline,
                                      input[1].stage))
    /\ UNCHANGED <<heap, sessions, nextSid, clock, nextJob, workers, h,
                   suspended, callers, input>>

RulesNext == ApplyParseExcelRules

RulesSpec == RulesInit /\ [][RulesNext]_vars

\* ---------------------------------------- parse_expected_value, on its own
\* the characters of the generated texts
TextAlphabet == {"A", ",", "[", "]", "(", ")", " ", "\n"}

\* "SIM", "sim", " Sim ", "NÃO SE APLICA", "não se aplica", "X", "A,B",
\* " [A,B", "[A,B] x", "[A] (x)", "[A, B, C] (Opção B)", and "[A," and "B]" on
\* two lines of one cell
NamedTexts ==
    {Sim, Lower(Sim), <<" ", "S", "i", "m", " ">>, NaoSeAplica,
     Lower(NaoSeAplica), <<"X">>, <<"A", ",", "B">>,
     <<" ", "[", "A", ",", "B">>, <<"[", "A", ",", "B", "]", " ", "x">>,
     <<"[", "A", "]", " ", "(", "x", ")">>,
     <<"[", "A", ",", "\n", "B", "]">>,
     <<"[", "A", ",", " ", "B", ",", " ", "C", "]", " ",
       "(", "O", "p", "ç", "ã", "o", " ", "B", ")">>}

PredicateInit ==
    /\ Quiet
    /\ input \in {Some([expected |-> text]) :
                     text \in NamedTexts
                        \cup UNION {[1..n -> TextAlphabet] : n \in 0..MaxText}}
    /\ output = None

ApplyParseExpectedValue ==
    /\ input # None
    /\ output = None
    /\ output' = Some(ParseExpectedValue(input[1].expected))
    /\ UNCHANGED <<heap, sessions, nextSid, clock, nextJob, workers, h,
                   suspended, callers, input>>

PredicateNext == ApplyParseExpectedValue

PredicateSpec == PredicateInit /\ [][PredicateNext]_vars

\* ------------------------------------ extract_discipline_stage, on its own
\* "VG076-GAS-COB01-R2"
NamePattern ==
    <<"V", "G", "0", "7", "6", "-", "G", "A", "S", "-", "C", "O", "B", "0", "1",
      "-", "R", "2">>

\* file names: the first characters of the pattern, with one of them replaced
\* by a dot or none, followed by ".ifc", by a dot, or by nothing
NameChoices ==
    {[i \in 1..n |-> IF i = p THEN "." ELSE NamePattern[i]] \o ext :
        n \in 0..MaxBase, p \in 0..MaxBase, ext \in {<<>>, <<".">>, DotIfc}}

NameInit ==
    /\ Quiet
    /\ input \in {Some([filename |-> name]) : name \in NameChoices}
    /\ output = None

ApplyExtractDisciplineStage ==
    /\ input # None
    /\ output = None
    /\ output' = Some(ExtractDisciplineStage(input[1].filename))
    /\ UNCHANGED <<heap, sessions, nextSid, clock, nextJob, workers, h,
                   suspended, callers, input>>

NameNext == ApplyExtractDisciplineStage

NameSpec == NameInit /\ [][NameNext]_vars

\* --------------------------------------------------- get_validation_issues
\* a query parameter is used as a filter when it is given and not empty;
\* `empty` is the empty text in the form the parameter is written in
Given(param, empty) == param # None /\ param[1] # empty

\* issues[start:end]
Slice(s, start, end) ==
    SubSeq(s, start + 1, IF end < Len(s) THEN end ELSE Len(s))

\* FilterIssues that keeps an issue that passes one of the filters
FilterIssuesEither(issues, entity, reason) ==
    SelectSeq(issues,
              LAMBDA i : \/ ~Given(entity, <<>>) /\ ~Given(reason, "")
                         \/ Given(entity, <<>>) /\ i.entity_type = entity[1]
                         \/ Given(reason, "") /\ i.reason = reason[1])

\* get_validation_issues lines 159-163: the issues that pass the filters
FilterIssues(issues, entity, reason) ==
    SelectSeq(SelectSeq(issues,
                        LAMBDA i : Given(entity, <<>>) => i.entity_type = entity[1]),
              LAMBDA i : Given(reason, "") => i.reason = reason[1])

\* get_validation_issues lines 151-175, on the session get_session returned
GetValidationIssues(session, entity, reason, page, page_size) ==
    IF session = None \/ session[1].validation_results = None
    THEN BadRequest(<<"Nenhuma validacao executada nesta sessao">>)
    ELSE LET issues == FilterIssues(session[1].validation_results[1].issues,
                                    entity, reason)
             total == Len(issues)
             start == (page - 1) * page_size
         IN  [code |-> 200, total |-> total, page |-> page,
              page_size |-> page_size,
              total_pages |-> (total + page_size - 1) \div page_size,
              issues |-> Slice(issues, start, start + page_size)]

\* issues of a report: failed results of pipes and of a wall, told apart by
\* their global ids
IssueChoices ==
    {[global_id |-> <<"g", "1">>, entity_type |-> <<"P">>, reason |-> "Pset ausente"],
     [global_id |-> <<"g", "2">>, entity_type |-> <<"P">>, reason |-> "Valor divergente"],
     [global_id |-> <<"g", "3">>, entity_type |-> <<"W">>, reason |-> "Pset ausente"],
     [global_id |-> <<"g", "4">>, entity_type |-> <<"P">>, reason |-> "Pset ausente"]}

\* what get_session returned: nothing, a session without a report, a session
\* with the issues of a report
IssueSessions ==
    {None, Some([validation_results |-> None])}
    \cup {Some([validation_results |-> Some([issues |-> issues])]) :
            issues \in UNION {[1..n -> IssueChoices] : n \in 0..MaxIssues}}

\* a client asks for the pages of the issues of a session, one after another,
\* with the same filters and page size
IssuesInit ==
    /\ Quiet
    /\ input \in {Some([session |-> s, entity |-> e, reason |-> r, page_size |-> ps]) :
                     s \in IssueSessions,
                     e \in {None, Some(<<>>), Some(<<"P">>)},
                     r \in {None, Some("Pset ausente")},
                     ps \in 1..MaxPageSize}
    /\ output = <<>>

\* get_validation_issues answers the next page
AnswerIssuesPage ==
    /\ input # None
    /\ Len(output) < MaxPage
    /\ output' = Append(output,
                        GetValidationIssues(input[1].session, input[1].entity,
                                            input[1].reason, Len(output) + 1,
                                            input[1].page_size))
    /\ UNCHANGED <<heap, sessions, nextSid, clock, nextJob, workers, h,
                   suspended, callers, input>>

IssuesNext == AnswerIssuesPage

IssuesSpec == IssuesInit /\ [][IssuesNext]_vars

\* ------------------------------- the percentage of a summary, on its own
\* counts of evaluated elements up to MaxEvaluated and, of them, none, one,
\* a sixteenth, half, all but one or all conforme
ConformeChoices(e) ==
    {0, 1, e \div 16, e \div 2, e - 1, e} \cap 0..e

PercentInit ==
    /\ Quiet
    /\ input \in UNION {{Some([conforme |-> c, evaluated |-> e]) :
                            c \in ConformeChoices(e)} : e \in 0..MaxEvaluated}
    /\ output = None

\* run_validation line 314 computes the percentage of the counts
ApplyPercent ==
    /\ input # None
    /\ output = None
    /\ \E p \in PercentOutcomes(input[1].conforme, input[1].evaluated) :
          output' = Some(p)
    /\ UNCHANGED <<heap, sessions, nextSid, clock, nextJob, workers, h,
                   suspended, callers, input>>

PercentNext == ApplyPercent

PercentSpec == PercentInit /\ [][PercentNext]_vars

\* ------------------------------------------------------ the store's lock
\* What the handlers and the ingestion worker do to SessionManager._lock, a
\* threading.Lock: a thread is its kind, the steps it has yet to take, and
\* whether it has the lock.  `with self._lock:` is the step "acquire", which
\* waits while any thread has the lock, the body, and the step "release".
\* The handlers are coroutines of one event loop: a handler that has started
\* keeps the loop until it ends or reaches an `await`, also while it waits
\* for the lock; a worker is a thread of its own.  In this specification the
\* variable callers holds the threads.

\* SessionManager.create_session
CreateSessionSteps == <<"acquire", "create", "release">>
\* SessionManager._cleanup_expired
CleanupExpiredSteps == <<"time", "acquire", "purge", "release">>
\* get_session that purges inside its own `with self._lock:`
GetSessionStepsNested ==
    <<"acquire">> \o CleanupExpiredSteps \o <<"lookup", "release">>
\* SessionManager.get_session
GetSessionSteps == CleanupExpiredSteps \o <<"acquire", "lookup", "release">>
\* SessionManager.update_session
UpdateSessionSteps == <<"acquire", "update", "release">>
\* SessionManager.delete_session
DeleteSessionSteps == <<"acquire", "delete", "release">>

\* _process_ifc_async, with parse_ifc between its two updates (the second one
\* is the update of line 27 or the one of line 36)
ProcessIfcAsync ==
    [kind |-> "worker", holds |-> FALSE, running |-> FALSE,
     todo |-> UpdateSessionSteps \o <<"parse_ifc">> \o UpdateSessionSteps]

\* upload_ifc into a session that is there, or into none
UploadIfc(reuse) ==
    [kind |-> "handler", holds |-> FALSE, running |-> FALSE,
     todo |-> <<"await">>
              \o (IF reuse THEN GetSessionSteps \o UpdateSessionSteps
                            ELSE CreateSessionSteps)
              \o UpdateSessionSteps]

\* upload_excel, with the validation pass between its read of the session
\* and its write of the report
UploadExcel ==
    [kind |-> "handler", holds |-> FALSE, running |-> FALSE,
     todo |-> GetSessionSteps \o <<"await", "run_validation">>
              \o UpdateSessionSteps]

\* a handler that deletes a session
DeleteSession ==
    [kind |-> "handler", holds |-> FALSE, running |-> FALSE,
     todo |-> DeleteSessionSteps]

ThreadChoices ==
    {ProcessIfcAsync, UploadIfc(TRUE), UploadIfc(FALSE), UploadExcel,
     DeleteSession}

LockInit ==
    /\ heap = <<>>
    /\ sessions = {}
    /\ nextSid = 1
    /\ clock = 0
    /\ nextJob = 1
    /\ workers = <<>>
    /\ h = Idle
    /\ suspended = {}
    /\ callers \in [1..MaxThreads -> ThreadChoices]
    /\ input = None
    /\ output = None

\* threading.Lock: locked
Locked == \E u \in DOMAIN callers : callers[u].holds

\* the event loop runs thread t: t is no handler, or it is the handler that
\* has the loop, or no handler has it
Scheduled(t) ==
    \/ callers[t].kind # "handler"
    \/ callers[t].running
    \/ \A u \in DOMAIN callers : ~callers[u].running

\* thread t can take its next step
CanStep(t) ==
    /\ callers[t].todo # <<>>
    /\ Scheduled(t)
    /\ Head(callers[t].todo) = "acquire" => ~Locked

\* the thread after its next step
Stepped(c) ==
    [c EXCEPT !.todo = Tail(@),
              !.holds = IF Head(c.todo) = "acquire" THEN TRUE
                        ELSE IF Head(c.todo) = "release" THEN FALSE
                        ELSE @,
              !.running = /\ c.kind = "handler"
                          /\ Head(c.todo) # "await"
                          /\ Tail(c.todo) # <<>>]

\* `with self._lock:`, entered
Acquire(t) ==
    /\ CanStep(t)
    /\ Head(callers[t].todo) = "acquire"
    /\ callers' = [callers EXCEPT ![t] = Stepped(@)]
    /\ UNCHANGED <<heap, sessions, nextSid, clock, nextJob, workers, h,
                   suspended, input, output>>

\* `with self._lock:`, left
Release(t) ==
    /\ CanStep(t)
    /\ Head(callers[t].todo) = "release"
    /\ callers' = [callers EXCEPT ![t] = Stepped(@)]
    /\ UNCHANGED <<heap, sessions, nextSid, clock, nextJob, workers, h,
                   suspended, input, output>>

\* any other step of thread t
Work(t) ==
    /\ CanStep(t)
    /\ Head(callers[t].todo) \notin {"acquire", "release"}
    /\ callers' = [callers EXCEPT ![t] = Stepped(@)]
    /\ UNCHANGED <<heap, sessions, nextSid, clock, nextJob, workers, h,
                   suspended, input, output>>

LockStep(t) == Acquire(t) \/ Release(t) \/ Work(t)

LockNext == \E t \in DOMAIN callers : LockStep(t)

LockSpec == LockInit /\ [][LockNext]_vars

\* a thread that can take a step takes one
LockFairSpec == LockSpec /\ \A t \in 1..MaxThreads : WF_vars(LockStep(t))

\* ------------------------------------------------------------ vocabulary
JobStatuses == {"queued", "running", "done", "error"}
Terminal == {"done", "error"}

Rank(st) ==
    CASE st = "queued" -> 1
      [] st = "running" -> 2
      [] st \in Terminal -> 3
      [] OTHER -> 0

\* status t may follow status s along queued -> running -> {done | error}
Forward(s, t) == Rank(s) <= Rank(t) /\ (s \in Terminal => t = s)

\* the age the purge of a get issued now would compute for session sid
Age(sid) == clock - heap[sid].created_at

PollAnswered ==
    h.op = "poll" /\ h.pc = "returned" /\ h.out[1].code = 200

UploadAnswered ==
    h.op = "upload_ifc" /\ h.pc = "returned" /\ h.out[1].code = 200

\* ------------------------------------------------------------------ claims
\* C1: the job status seen by successive polls with one job id only moves
\* forward along queued -> running -> {done | error}.  A poll that has answered
\* with a status is followed by the status the next poll with the same ids
\* reads: the session is still in the store, unexpired, with the same job id,
\* and the next poll reads its job_status as it stands.
C1_PolledStatusMovesForward ==
    \A sid \in sessions :
        (/\ PollAnswered
         /\ h.session_id = Some(sid)
         /\ Current(sid, h.job_id)
         /\ Age(sid) <= TTL)
        => Forward(h.out[1].status, heap[sid].job_status)

\* C2: when upload has recorded the job id it is about to return, the session
\* holds that job id together with status queued, for a new session as for a
\* reused one; and a poll that answers reports a status among queued, running,
\* done, error.
C2_JobRecordedAsQueued ==
    /\ (h.op = "upload_ifc" /\ h.pc = "return" /\ h.session_id[1] \in sessions)
        => /\ heap[h.session_id[1]].job_id = Some(h.job_id)
           /\ heap[h.session_id[1]].job_status = "queued"
    /\ PollAnswered => h.out[1].status \in JobStatuses

\* C3: the completion of a worker writes its own model index, its own filename
\* and status done into its session whatever job id the session records by
\* then, the job id staying as it is; so an upload A whose worker finishes
\* after upload B has reset the session and recorded B's job id leaves B's job
\* id next to A's index and filename.
C3_StaleCompletionOverwrites ==
    [][\A j \in DOMAIN workers :
          (WorkerDone(j) /\ workers[j].session_id \in sessions)
          => LET sid == workers[j].session_id
             IN  /\ heap'[sid].ifc_index = Some(workers[j].file.model)
                 /\ heap'[sid].ifc_filename = Some(workers[j].file.filename)
                 /\ heap'[sid].job_status = "done"
                 /\ heap'[sid].job_id = heap[sid].job_id]_vars

\* C3 witness: the session records job 2, whose worker has not started to
\* parse its file "a.IFC" (model 2), and holds the index and the filename of
\* job 1's file with status done
C3_Witness ==
    \E sid \in sessions :
        /\ heap[sid].job_id = Some(2)
        /\ 2 \in DOMAIN workers
        /\ workers[2].file.model = 2
        /\ 1 \notin DOMAIN workers
        /\ heap[sid].ifc_index = Some(1)
        /\ heap[sid].ifc_filename = Some(FileGasCob)
        /\ heap[sid].job_status = "done"

\* C4: a poll answers not-found when its session is not in the store or when
\* its job id is not the one the session records; an answer with status data
\* is for the session's current job id only.
C4_PollOnlyCurrentJob ==
    (h.op = "poll" /\ h.pc = "returned")
    => /\ h.out[1].code \in {200, 404}
       /\ ~Current(h.session_id[1], h.job_id) => h.out[1].code = 404
       /\ h.out[1].code = 200 => Current(h.session_id[1], h.job_id)

\* C4 witness: a poll with job id 1 is answered not-found after a later
\* upload has recorded job 2 in the same session
C4_Witness ==
    /\ h.op = "poll" /\ h.pc = "returned"
    /\ h.job_id = 1
    /\ h.out[1].code = 404
    /\ Current(h.session_id[1], 2)

\* C5: a job that has reached done or error stays in that status for as long
\* as its session stays in the store and no further upload touches it (the
\* claim's liveness half, that a fairly scheduled worker brings the job to
\* done or error, is not needed to refute it).
C5_TerminalStatusStays ==
    [][\A sid \in sessions, jid \in JobIds :
          (/\ Current(sid, jid)
           /\ heap[sid].job_status \in Terminal
           /\ sid \in sessions'
           /\ ~(h.op = "upload_ifc" /\ h.session_id = Some(sid)))
          => heap'[sid].job_status = heap[sid].job_status]_vars

\* upload_ifc returns from a call that found its session in the store
ReuseReturns ==
    /\ h.op = "upload_ifc"
    /\ h.pc = "return"
    /\ h.session # None
    /\ h'.pc = "returned"

\* C6: when an upload that reuses a session returns, the session's model
\* index, model filename and validation results are null, its status is queued
\* with progress 0 and its job id is the one the call allocated.
C6_ReuseReturnsResetSession ==
    [][ReuseReturns =>
          /\ Ref(h)'.ifc_index = None
          /\ Ref(h)'.ifc_filename = None
          /\ Ref(h)'.validation_results = None
          /\ Ref(h)'.job_status = "queued"
          /\ Ref(h)'.job_progress = 0
          /\ Ref(h)'.job_id = Some(h.job_id)]_vars

\* The part of C6 on results: when an upload that reuses a session returns,
\* the session holds no model index, no model filename and no validation
\* results.
ReuseReturnsWithoutResults ==
    [][ReuseReturns =>
          /\ Ref(h)'.ifc_index = None
          /\ Ref(h)'.ifc_filename = None
          /\ Ref(h)'.validation_results = None]_vars

\* What does hold when an upload that reuses a session returns: the session
\* records the job id the call allocated and holds no validation results.
ReuseReturnsNewJobNoReport ==
    [][ReuseReturns =>
          /\ Ref(h)'.validation_results = None
          /\ Ref(h)'.job_id = Some(h.job_id)]_vars

\* the reset of a reused session that held the report of a validation run
ResetDiscardsReport ==
    [][(UploadReset /\ Ref(h).validation_results # None) =>
          /\ Ref(h)'.validation_results = None
          /\ Ref(h)'.ifc_index = None]_vars

\* what the except branch of worker j leaves in its session for failure e
ErrorRecorded(j, e) ==
    LET sid == workers[j].session_id
    IN  /\ heap'[sid].job_status = "error"
        /\ heap'[sid].job_progress = 0
        /\ heap'[sid].job_message = <<"Erro no processamento: ", e>>
        /\ heap'[sid].ifc_index = heap[sid].ifc_index
        /\ heap'[sid].ifc_filename = heap[sid].ifc_filename

\* C7 as stated: when the parser raises, the worker records error, progress 0
\* and the failure detail, writes no model index, and the upload call that
\* started the job has already returned.
C7_FailureAfterUploadReturned ==
    [][\A j \in DOMAIN workers, e \in Failures :
          (WorkerError(j, e) /\ workers[j].session_id \in sessions)
          => /\ ErrorRecorded(j, e)
             /\ ~(h.op = "upload_ifc" /\ h.pc = "return" /\ h.job_id = j)]_vars

\* C7 amended: when the parser raises, the worker records error, progress 0
\* and the failure detail in its session and writes no model index; the upload
\* call that started a job answers normally with status queued and that job's
\* id, whether the worker has failed by then or not.
C7_FailureStaysInJob ==
    /\ [][\A j \in DOMAIN workers, e \in Failures :
             (WorkerError(j, e) /\ workers[j].session_id \in sessions)
             => ErrorRecorded(j, e)]_vars
    /\ []((h.op = "upload_ifc" /\ h.pc = "returned" /\ h.job_id # 0)
            => /\ h.out[1].code = 200
               /\ h.out[1].status = "queued"
               /\ h.out[1].job_id = h.job_id)

\* C7 witness: the upload that started job 1 answers queued while the session
\* already holds the error of job 1's worker and no model index
C7_Witness ==
    /\ UploadAnswered
    /\ h.job_id = 1
    /\ h.out[1].status = "queued"
    /\ Current(h.session_id[1], 1)
    /\ 1 \notin DOMAIN workers
    /\ heap[h.session_id[1]].job_status = "error"
    /\ heap[h.session_id[1]].job_progress = 0
    /\ heap[h.session_id[1]].job_message = <<"Erro no processamento: ", "corrupt">>
    /\ heap[h.session_id[1]].ifc_index = None

\* a step of the client's call `op` on session id sid, from entry to result
Called(op, sid) ==
    /\ h.pc = "idle"
    /\ h'.pc = "returned"
    /\ h'.op = op
    /\ h'.session_id = Some(sid)

\* the purge step of a get_session call
Purged == h.pc = "get_purge" /\ h'.pc = "get_lookup"

\* C8: immediately after the purge step of a get call, for whichever id, the
\* store holds no session whose age, the current time minus its creation
\* timestamp, exceeds the TTL, and the sessions the purge removed were older
\* than the TTL.
C8_NoOverAgeSessionAfterPurge ==
    [][Purged =>
          /\ \A sid \in sessions' : clock' - heap'[sid].created_at <= TTL
          /\ \A sid \in sessions \ sessions' :
                clock - heap[sid].created_at > TTL]_vars

\* The purge measured against the time its call read before taking the lock:
\* it removes the sessions older than the TTL at that time and no other.
PurgeExactAtTimeRead ==
    [][Purged =>
          sessions' = {sid \in sessions : h.now - heap[sid].created_at <= TTL}]_vars

\* C9: create, update and delete do not remove a session because of its age,
\* and neither does the passage of time: a session older than the TTL leaves
\* the store only through the purge of a get call or a delete of its own id,
\* and an update on it returns True and leaves the given values in it.
C9_OverAgeSessionStaysUntilGet ==
    [][\A sid \in sessions :
          Age(sid) > TTL =>
             /\ Purged \/ Called("delete_session", sid) \/ sid \in sessions'
             /\ Called("update_session", sid) =>
                   /\ h'.out = Some(TRUE)
                   /\ \A f \in DOMAIN h'.kwargs :
                         heap'[sid][f] = h'.kwargs[f]]_vars

\* C9 witness: an update has just committed done, with a model index, into a
\* session that is two TTLs old and still in the store
C9_Witness ==
    /\ h.op = "update_session"
    /\ h.pc = "returned"
    /\ h.out = Some(TRUE)
    /\ h.session_id[1] \in sessions
    /\ Age(h.session_id[1]) = 2 * TTL
    /\ h.kwargs \in {k \in StoreKwargs : "ifc_index" \in DOMAIN k}
    /\ heap[h.session_id[1]].job_status = "done"
    /\ heap[h.session_id[1]].ifc_index # None

\* C10: update_session on a session in the store returns True, replaces the
\* named fields by the given values and leaves every other field of the
\* session, every other session and the set of sessions as they were; on an
\* id that is not in the store it returns False and leaves the store as it
\* was, without a session under that id.
C10_UpdateIsShallowMerge ==
    [][\A sid \in KnownSids :
          Called("update_session", sid) =>
             /\ sessions' = sessions
             /\ DOMAIN heap' = DOMAIN heap
             /\ \A other \in DOMAIN heap \ {sid} : heap'[other] = heap[other]
             /\ IF sid \in sessions
                   THEN /\ h'.out = Some(TRUE)
                        /\ DOMAIN heap'[sid] = DOMAIN heap[sid]
                        /\ \A f \in DOMAIN heap[sid] :
                              heap'[sid][f] = IF f \in DOMAIN h'.kwargs
                                                THEN h'.kwargs[f]
                                                ELSE heap[sid][f]
                   ELSE /\ h'.out = Some(FALSE)
                        /\ heap' = heap
                        /\ sid \notin sessions']_vars

\* C10 witness: an update of the job id alone has returned True on a session
\* that keeps its status running, next to another session in the store
C10_Witness ==
    /\ h.op = "update_session"
    /\ h.pc = "returned"
    /\ h.out = Some(TRUE)
    /\ h.kwargs = [job_id |-> Some(1)]
    /\ heap[h.session_id[1]].job_id = Some(1)
    /\ heap[h.session_id[1]].job_status = "running"
    /\ \E other \in sessions \ {h.session_id[1]} :
          heap[other].job_id = None

\* the calls that have had the lock, for session sid, with field f among
\* their fields
Wrote(sid, f) ==
    {t \in Committed :
        callers[t].session_id = sid /\ f \in DOMAIN callers[t].kwargs}

\* the one of them that had the lock last
LastWrote(sid, f) ==
    CHOOSE t \in Wrote(sid, f) :
        \A u \in Wrote(sid, f) : callers[u].turn <= callers[t].turn

\* C11: with update calls running side by side, in every state every field of
\* a session holds the value given by the call that had the lock last among
\* the calls naming it, or the value the session was created with when no
\* call that had the lock names it: calls on disjoint fields both leave their
\* values, on a common field the last at the lock wins, and no call has left
\* only part of its fields.
C11_UpdatesSerializedByLock ==
    \A sid \in sessions :
       \A f \in DOMAIN heap[sid] :
          heap[sid][f] = IF Wrote(sid, f) = {}
                         THEN NewSession(heap[sid].created_at)[f]
                         ELSE callers[LastWrote(sid, f)].kwargs[f]

\* C11 witness: a call with the fields of a completion had the lock first, a
\* call with the fields of a start second, on one session: the session holds
\* status running, of the second, and the model index of the first
C11_Witness ==
    /\ Len(callers) = 2
    /\ Committed = {1, 2}
    /\ callers[1].session_id = callers[2].session_id
    /\ callers[1].session_id \in sessions
    /\ callers[1].kwargs = RunningFields
    /\ "ifc_index" \in DOMAIN callers[2].kwargs
    /\ callers[2].turn = 1
    /\ callers[1].turn = 2
    /\ heap[callers[1].session_id].job_status = "running"
    /\ heap[callers[1].session_id].ifc_index # None

\* upload_excel answers: the step that builds its response
ExcelAnswers ==
    /\ h'.op = "upload_excel"
    /\ h'.pc = "returned"
    /\ h.pc # "returned"

\* the step of upload_excel from get_session's result to the `await`
ExcelChecks == h.op = "upload_excel" /\ h.pc = "got" /\ h'.pc # "got"

\* the step of upload_excel from the `await` to the report: the run resumed
ExcelReads == h.pc = "idle" /\ suspended' # suspended /\ h'.op = "upload_excel"

Resumed == CHOOSE f \in suspended : f \notin suspended'

\* the header texts of a spreadsheet
HeaderNames(sheet) ==
    {Headers(sheet.header_cells)[i] : i \in 1..Len(sheet.header_cells)}

\* the rows of a spreadsheet that name a discipline, with a category, a
\* property set and a property
RowsFor(sheet, discipline) ==
    {i \in 1..Len(sheet.rows) :
        KeptRow(RowDict(Headers(sheet.header_cells), sheet.rows[i]), discipline)}

\* C12: a validation run whose session has no model index, whose model
\* filename is too short, whose stage code is not a stage column, whose
\* spreadsheet lacks a required column or has no rule for the discipline
\* answers with an error; an answer of upload_excel that follows no store of
\* a report is an error; and no step of a run other than that store changes
\* the validation results of any session.
C12_FailedRunLeavesResults ==
    [][/\ (ExcelChecks /\ (h.session = None \/ Ref(h).ifc_index = None))
           => (ExcelAnswers /\ h'.out[1].code = 400)
       /\ (ExcelChecks /\ h.session # None /\ Ref(h).ifc_filename # None
             /\ Len(BaseName(Ref(h).ifc_filename[1])) < 13)
           => (ExcelAnswers /\ h'.out[1].code = 400)
       /\ (ExcelReads /\ (\/ heap[Resumed.session[1]].ifc_index = None
                           \/ Upper(Resumed.local[1].stage) \notin STAGE_COLUMNS
                           \/ ~({ColDisciplina, ColCategoria, ColPset, ColPropriedade}
                                  \subseteq HeaderNames(Resumed.file[1]))
                           \/ RowsFor(Resumed.file[1], Resumed.local[1].discipline) = {}))
           => (ExcelAnswers /\ h'.out[1].code \in {400, 500})
       /\ (ExcelAnswers /\ h.pc # "store") => h'.out[1].code \in {400, 500}
       /\ ((h.op = "upload_excel" \/ h'.op = "upload_excel") /\ h.pc # "store")
           => \A sid \in DOMAIN heap \cap DOMAIN heap' :
                 heap'[sid].validation_results = heap[sid].validation_results]_vars

\* C12 witness: a run with a spreadsheet that has no rule for the discipline
\* has answered 400, and the session still holds the report of an earlier run
C12_Witness ==
    /\ h.op = "upload_excel"
    /\ h.pc = "returned"
    /\ h.out[1].code = 400
    /\ h.out[1].detail[1] = "Nenhuma regra encontrada"
    /\ h.session_id[1] \in sessions
    /\ heap[h.session_id[1]].validation_results # None

\* ---- validate_element (ElementSpec)
\* the call of validate_element has returned
ElementDone == input # None /\ output # None

\* the rules of the input whose category is the entity type of the element,
\* as positions in the list of rules
MatchingAt ==
    {i \in DOMAIN input[1].rules :
        input[1].rules[i].category = input[1].element.entity_type}

\* the position in the list of rules of the k-th rule that matches
MatchingRule(k) ==
    CHOOSE i \in MatchingAt : Cardinality({j \in MatchingAt : j < i}) = k - 1

\* the property set and the value the element has for the k-th matching rule
PsetFor(k) ==
    LET rule == input[1].rules[MatchingRule(k)]
        psets == input[1].element.psets
    IN  IF rule.pset \in DOMAIN psets THEN psets[rule.pset] ELSE None

ValueFor(k) ==
    LET rule == input[1].rules[MatchingRule(k)]
    IN  IF PsetFor(k) # None /\ rule.property \in DOMAIN PsetFor(k)[1]
        THEN PsetFor(k)[1][rule.property] ELSE None

\* the expected text of the k-th matching rule is one that is not checked
IgnoredText(k) ==
    LET text == Strip(input[1].rules[MatchingRule(k)].expected)
    IN  text = <<>> \/ Upper(text) = NaoSeAplica

\* C13: validate_element returns exactly one result for each rule whose
\* category equals the entity type of the element, case-sensitively and in
\* the order of the rules, and no result for any other rule.
C13_OneResultPerMatchingRule ==
    ElementDone =>
        /\ Len(output[1]) = Cardinality(MatchingAt)
        /\ \A k \in 1..Len(output[1]) :
              LET rule == input[1].rules[MatchingRule(k)]
              IN  /\ output[1][k].pset = rule.pset
                  /\ output[1][k].property = rule.property
                  /\ output[1][k].expected = rule.expected
                  /\ output[1][k].entity_type = rule.category

\* a rule of another category stands before the rule that matches, and only
\* the second has a result
C13_Witness ==
    /\ ElementDone
    /\ Len(input[1].rules) = 2
    /\ MatchingAt = {2}
    /\ Len(output[1]) = 1
    /\ output[1][1].expected = input[1].rules[2].expected
    /\ input[1].rules[1].expected # input[1].rules[2].expected

\* C14: for a matching rule that is checked, an element without the property
\* set of the rule gets "Não Conforme" with reason "Pset ausente"; otherwise
\* an element without a value for the property (no key, or a null value) gets
\* "Não Conforme" with reason "Propriedade ausente"; the actual value is null
\* in both cases, whatever the kind of the predicate.
C14_AbsenceChecksFirst ==
    ElementDone =>
        \A k \in 1..Len(output[1]) :
            ~IgnoredText(k) =>
                /\ PsetFor(k) = None =>
                      /\ output[1][k].status = "Não Conforme"
                      /\ output[1][k].reason = "Pset ausente"
                      /\ output[1][k].actual = None
                /\ (PsetFor(k) # None /\ ValueFor(k) = None) =>
                      /\ output[1][k].status = "Não Conforme"
                      /\ output[1][k].reason = "Propriedade ausente"
                      /\ output[1][k].actual = None

\* the property is there with a null value, the rule asks for any value
C14_Witness ==
    /\ ElementDone
    /\ \E k \in 1..Len(output[1]) :
          /\ PsetFor(k) # None
          /\ Pressao \in DOMAIN PsetFor(k)[1]
          /\ ValueFor(k) = None
          /\ input[1].rules[MatchingRule(k)].expected = <<"S", "i", "m">>
          /\ output[1][k].reason = "Propriedade ausente"

\* C15: for a matching rule whose property set and property the element has,
\* the actual value is the trimmed text of the property value; a rule that
\* asks for any value is met unless the actual value is empty or "none" in any
\* letter case ("Valor ausente"); a list is met iff the actual value is one of
\* its values ("Fora da lista permitida"); any other text is met iff the
\* actual value equals the raw expected text ("Valor divergente"); the reason
\* is empty exactly when the status is "Conforme".
C15_ValueChecks ==
    ElementDone =>
        \A k \in 1..Len(output[1]) :
            (~IgnoredText(k) /\ ValueFor(k) # None) =>
                LET rule == input[1].rules[MatchingRule(k)]
                    parsed == ParseExpectedValue(rule.expected)
                    actual == Strip(ValueFor(k)[1])
                    met == IF parsed.type = "exists"
                           THEN ~(actual = <<>> \/ Lower(actual) = <<"n", "o", "n", "e">>)
                           ELSE IF parsed.type = "list"
                           THEN actual \in {parsed.values[i] : i \in DOMAIN parsed.values}
                           ELSE actual = rule.expected
                    reason == IF parsed.type = "exists" THEN "Valor ausente"
                              ELSE IF parsed.type = "list"
                              THEN "Fora da lista permitida"
                              ELSE "Valor divergente"
                IN  /\ parsed.type \in {"exists", "list", "exact"}
                    /\ output[1][k].actual = Some(actual)
                    /\ output[1][k].status = IF met THEN "Conforme" ELSE "Não Conforme"
                    /\ output[1][k].reason = IF met THEN "" ELSE reason
                    /\ output[1][k].reason = "" <=> output[1][k].status = "Conforme"

\* the value " A " meets the list "A,B" as "A"
C15_Witness ==
    /\ ElementDone
    /\ \E k \in 1..Len(output[1]) :
          /\ ValueFor(k) = Some(<<" ", "A", " ">>)
          /\ input[1].rules[MatchingRule(k)].expected = <<"A", ",", "B">>
          /\ output[1][k].status = "Conforme"
          /\ output[1][k].actual = Some(<<"A">>)

\* C16: a matching rule whose expected text is empty, blank or "NÃO SE
\* APLICA" in any letter case gets status "Ignorado" with an empty reason and
\* a null actual value, whatever the element holds, also when the property
\* set or the property is absent.
C16_IgnoreBeforeData ==
    ElementDone =>
        \A k \in 1..Len(output[1]) :
            IgnoredText(k) =>
                /\ output[1][k].status = "Ignorado"
                /\ output[1][k].reason = ""
                /\ output[1][k].actual = None

\* "não se aplica" on an element without any property set
C16_Witness ==
    /\ ElementDone
    /\ input[1].element.psets = <<>>
    /\ \E k \in 1..Len(output[1]) :
          /\ Upper(input[1].rules[MatchingRule(k)].expected) = NaoSeAplica
          /\ input[1].rules[MatchingRule(k)].expected # NaoSeAplica
          /\ output[1][k].status = "Ignorado"

\* ---- run_validation (RunSpec)
RunDone == input # None /\ output # None /\ "report" \in DOMAIN output[1]

\* the global ids of the elements given to run_validation
GivenIds == {input[1].elements[i].global_id : i \in DOMAIN input[1].elements}

\* the statuses of the checked results of the elements with a global id
CheckedStatuses(id) ==
    {output[1].report.all_results[i].status :
        i \in {j \in DOMAIN output[1].report.all_results :
                  /\ output[1].report.all_results[j].global_id = id
                  /\ output[1].report.all_results[j].status # "Ignorado"}}

\* the elements with this id are counted as the claim says
CountedByResults(id) ==
    /\ id \in output[1].conforme_guids <=> CheckedStatuses(id) = {"Conforme"}
    /\ id \in output[1].nao_conforme_guids <=> "Não Conforme" \in CheckedStatuses(id)

\* the two sets are disjoint and the summary counts them
SetsAddUp ==
    /\ output[1].conforme_guids \cap output[1].nao_conforme_guids = {}
    /\ output[1].report.summary.total_conforme_elements
          = Cardinality(output[1].conforme_guids)
    /\ output[1].report.summary.total_nao_conforme_elements
          = Cardinality(output[1].nao_conforme_guids)
    /\ output[1].report.summary.total_evaluated_elements
          = Cardinality(output[1].conforme_guids)
            + Cardinality(output[1].nao_conforme_guids)

\* C17 as stated: an element, identified by its global id, is conforme
\* overall iff it has a checked result and all its checked results are
\* "Conforme", and não conforme overall iff one of its checked results is
\* "Não Conforme"; the two sets are disjoint and add up to the count of
\* evaluated elements.
C17_ConformityOfEveryElement ==
    RunDone => /\ \A id \in GivenIds : CountedByResults(id)
               /\ SetsAddUp

\* C17 (amended): the same for every element that has a global id; an
\* element without one is in neither set, whatever its results.
C17_ConformityOfIdentifiedElements ==
    RunDone => /\ \A id \in GivenIds \ {<<>>} : CountedByResults(id)
               /\ <<>> \notin output[1].conforme_guids \cup output[1].nao_conforme_guids
               /\ SetsAddUp

\* "g1" has an unchecked and a met result, "g2" a failed one
C17_Witness ==
    /\ RunDone
    /\ output[1].conforme_guids = {<<"g", "1">>}
    /\ output[1].nao_conforme_guids = {<<"g", "2">>}
    /\ \E i \in DOMAIN output[1].report.all_results :
          /\ output[1].report.all_results[i].global_id = <<"g", "1">>
          /\ output[1].report.all_results[i].status = "Ignorado"

\* ---- parse_excel_rules (RulesSpec)
RulesDone ==
    input # None /\ output # None /\ "rules" \in DOMAIN output[1]

\* the trimmed text of a cell; a cell that holds no value has the empty text
CellText(row, col) ==
    IF col \in DOMAIN row /\ row[col] # None THEN Strip(row[col][1]) ELSE <<>>

\* the rows the claim has a rule emitted for, as positions in the rows
RuleRows ==
    {i \in DOMAIN input[1].rows :
        /\ CellText(input[1].rows[i], ColDisciplina) = input[1].discipline
        /\ CellText(input[1].rows[i], ColCategoria) # <<>>
        /\ CellText(input[1].rows[i], ColPset) # <<>>
        /\ CellText(input[1].rows[i], ColPropriedade) # <<>>}

RuleRow(k) ==
    CHOOSE i \in RuleRows : Cardinality({j \in RuleRows : j < i}) = k - 1

\* C18: parse_excel_rules emits a rule for a row iff the trimmed discipline
\* cell of the row equals the discipline and its category, property set and
\* property cells are non-empty after trimming, a cell without a value being
\* empty; the expected text of the rule is the trimmed cell of the column of
\* the upper-cased stage, or empty when that cell holds no value.
C18_RuleForEveryCompleteRow ==
    (RulesDone /\ output[1].error = None) =>
        /\ Len(output[1].rules) = Cardinality(RuleRows)
        /\ \A k \in 1..Cardinality(RuleRows) :
              k <= Len(output[1].rules) =>
                 LET row == input[1].rows[RuleRow(k)]
                 IN  output[1].rules[k] =
                        [category |-> CellText(row, ColCategoria),
                         pset |-> CellText(row, ColPset),
                         property |-> CellText(row, ColPropriedade),
                         expected |-> CellText(row, Upper(input[1].stage))]

\* ---- parse_expected_value (PredicateSpec)
PredicateDone ==
    input # None /\ output # None /\ "expected" \in DOMAIN input[1]

\* a parenthetical: "(", at least one character, ")"
Parenthetical(s) == Len(s) >= 3 /\ s[1] = "(" /\ s[Len(s)] = ")"

\* the places where the bracket of a bracketed list may close: a "]" after
\* at least one character, followed by nothing or by a parenthetical
ClosingBrackets(t) ==
    {k \in 3..Len(t) :
        /\ t[1] = "["
        /\ t[k] = "]"
        /\ Parenthetical(Strip(SubSeq(t, k + 1, Len(t)))) \/ k = Len(t)}

\* the contents of a bracketed list, up to the first bracket that may close it
BracketContents(t) ==
    SubSeq(t, 2, (CHOOSE k \in ClosingBrackets(t) :
                     \A j \in ClosingBrackets(t) : k <= j) - 1)

\* C19: parse_expected_value gives every text exactly one predicate, by the
\* first rule that matches: empty, blank or "NÃO SE APLICA" in any letter
\* case is ignore; "SIM" in any letter case is exists; a bracketed list with
\* an optional trailing parenthetical is the list of its trimmed comma-split
\* contents; a text with a comma that does not start with "[" is the list of
\* its trimmed comma-split items; any other text is exact with the text as
\* its only value.
C19_PredicateByFirstRule ==
    PredicateDone =>
        LET text == input[1].expected
            t == Strip(text)
        IN  output[1] =
                IF t = <<>> \/ Upper(t) = NaoSeAplica
                THEN [type |-> "ignore", values |-> <<>>]
                ELSE IF Upper(t) = Sim
                THEN [type |-> "exists", values |-> <<>>]
                ELSE IF ClosingBrackets(t) # {}
                THEN [type |-> "list", values |-> Items(BracketContents(t))]
                ELSE IF (\E i \in DOMAIN text : text[i] = ",") /\ text[1] # "["
                THEN [type |-> "list", values |-> Items(text)]
                ELSE [type |-> "exact", values |-> <<text>>]

\* ---- extract_discipline_stage (NameSpec)
NameDone ==
    input # None /\ output # None /\ "filename" \in DOMAIN input[1]

\* the length of the name without its extension: the text before the last
\* dot, or the whole name when it has no dot
BaseLength(name) ==
    LET dots == {i \in DOMAIN name : name[i] = "."}
    IN  IF dots = {} THEN Len(name)
        ELSE (CHOOSE i \in dots : \A j \in dots : j <= i) - 1

\* C20: extract_discipline_stage strips the extension, the text after the
\* last dot; a remaining name of at least 13 characters gives its characters
\* 7 to 9 as discipline and 11 to 13 as stage ("VG076-GAS-COB01" gives "GAS"
\* and "COB"); a shorter one fails with an error and gives no codes.
C20_FixedOffsetsOfBaseName ==
    NameDone =>
        LET name == input[1].filename
        IN  /\ BaseLength(name) >= 13 =>
                  /\ output[1].error = None
                  /\ output[1].discipline = <<name[7], name[8], name[9]>>
                  /\ output[1].stage = <<name[11], name[12], name[13]>>
            /\ BaseLength(name) < 13 =>
                  /\ output[1].error # None
                  /\ output[1].discipline = <<>>
                  /\ output[1].stage = <<>>
            /\ name = SubSeq(NamePattern, 1, 15) =>
                  output[1].discipline = Gas /\ output[1].stage = Cob

\* "VG076-GAS-COB.ifc": exactly 13 characters once the extension is stripped
C20_Witness ==
    /\ NameDone
    /\ input[1].filename = SubSeq(NamePattern, 1, 13) \o DotIfc
    /\ output[1].error = None
    /\ output[1].discipline = Gas
    /\ output[1].stage = Cob

\* the checked results of the report, and those of them in a group
CheckedResults ==
    SelectSeq(output[1].report.all_results, LAMBDA r : r.status # "Ignorado")

FailedResults ==
    SelectSeq(output[1].report.all_results, LAMBDA r : r.status = "Não Conforme")

\* a group of results is counted in total, as met and as failed
GroupCounted(counters, group) ==
    /\ counters.total = Len(group)
    /\ counters.conforme = Len(SelectSeq(group, LAMBDA r : r.status = "Conforme"))
    /\ counters.nao_conforme
          = Len(SelectSeq(group, LAMBDA r : r.status = "Não Conforme"))
    /\ counters.total = counters.conforme + counters.nao_conforme

\* the sum of the values of a function with numbers as values
RECURSIVE SumOf(_, _)
SumOf(f, keys) ==
    IF keys = {} THEN 0
    ELSE LET k == CHOOSE x \in keys : TRUE
         IN  f[k] + SumOf(f, keys \ {k})

\* C21: in every report by_entity and by_property hold, for each entity type
\* and each "pset.property" key, the number of checked results of the group in
\* total, met and failed, so that total = met + failed and the totals of the
\* groups add up to the rule applications of the summary; by_reason holds the
\* number of failed results of each reason, adding up to the failed total of
\* the summary; the issues are exactly the failed results.
C21_AggregatesCountCheckedResults ==
    RunDone =>
        LET report == output[1].report
            checked == CheckedResults
        IN  /\ DOMAIN report.by_entity = {checked[i].entity_type : i \in DOMAIN checked}
            /\ \A t \in DOMAIN report.by_entity :
                  GroupCounted(report.by_entity[t],
                               SelectSeq(checked, LAMBDA r : r.entity_type = t))
            /\ DOMAIN report.by_property
                  = {checked[i].pset \o <<".">> \o checked[i].property : i \in DOMAIN checked}
            /\ \A key \in DOMAIN report.by_property :
                  GroupCounted(report.by_property[key],
                               SelectSeq(checked,
                                         LAMBDA r : r.pset \o <<".">> \o r.property = key))
            /\ SumOf([t \in DOMAIN report.by_entity |-> report.by_entity[t].total],
                     DOMAIN report.by_entity) = report.summary.total_rules_applied
            /\ SumOf([k \in DOMAIN report.by_property |-> report.by_property[k].total],
                     DOMAIN report.by_property) = report.summary.total_rules_applied
            /\ report.summary.total_rules_applied = Len(checked)
            /\ DOMAIN report.by_reason = {FailedResults[i].reason : i \in DOMAIN FailedResults}
            /\ \A reason \in DOMAIN report.by_reason :
                  report.by_reason[reason]
                     = Len(SelectSeq(FailedResults, LAMBDA r : r.reason = reason))
            /\ SumOf(report.by_reason, DOMAIN report.by_reason)
                  = report.summary.total_nao_conformes
            /\ report.summary.total_nao_conformes = Len(FailedResults)
            /\ report.issues = FailedResults

\* a pipe and a wall fail rules of two properties for two reasons
C21_Witness ==
    /\ RunDone
    /\ Cardinality(DOMAIN output[1].report.by_entity) = 2
    /\ Cardinality(DOMAIN output[1].report.by_property) = 2
    /\ Cardinality(DOMAIN output[1].report.by_reason) = 2
    /\ Len(output[1].report.issues) = 2
    /\ output[1].report.summary.total_rules_applied = 2

\* ---- get_validation_issues (IssuesSpec)
\* the issues of the session the pages are asked of
StoredIssues == input[1].session[1].validation_results[1].issues

HasReport ==
    /\ input # None /\ "page_size" \in DOMAIN input[1]
    /\ input[1].session # None
    /\ input[1].session[1].validation_results # None

\* an issue passes the filters that are given, both of them
Passes(i) ==
    /\ (input[1].entity \notin {None, Some(<<>>)} => i.entity_type = input[1].entity[1])
    /\ (input[1].reason \notin {None, Some("")} => i.reason = input[1].reason[1])

PassingIssues == SelectSeq(StoredIssues, Passes)

\* the issues of the answers to the first n pages, one after another
RECURSIVE PagesTogether(_)
PagesTogether(n) ==
    IF n = 0 THEN <<>> ELSE PagesTogether(n - 1) \o output[n].issues

\* C22: the issues query applies the entity and reason filters together, by
\* exact match; it answers total = the number of issues that pass and
\* total_pages = ceil(total / page_size); page p holds the passing issues at
\* positions (p-1)*page_size+1 .. p*page_size in order; a page past the last
\* is empty and no error; the pages 1..total_pages together are the passing
\* issues.
C22_IssuePages ==
    HasReport =>
        LET total == Len(PassingIssues)
            size == input[1].page_size
            pages == CHOOSE n \in 0..total : n * size >= total /\ (n - 1) * size < total
        IN  /\ \A p \in DOMAIN output :
                  /\ output[p].code = 200
                  /\ output[p].total = total
                  /\ output[p].total_pages = pages
                  /\ output[p].issues
                        = [k \in 1..(IF p * size <= total THEN size
                                     ELSE IF (p - 1) * size < total
                                     THEN total - (p - 1) * size ELSE 0) |->
                              PassingIssues[(p - 1) * size + k]]
                  /\ p > pages => output[p].issues = <<>>
            /\ Len(output) >= pages => PagesTogether(pages) = PassingIssues

\* three pages of one issue each were asked for pipes without a property
\* set; two issues pass, the third page is empty
C22_Witness ==
    /\ HasReport
    /\ Len(output) = 3
    /\ input[1].page_size = 1
    /\ input[1].entity = Some(<<"P">>) /\ input[1].reason = Some("Pset ausente")
    /\ Len(StoredIssues) = 3
    /\ output[1].total = 2
    /\ output[1].issues # output[2].issues
    /\ output[3].issues = <<>>

\* ---------------------------------------------------------------- C23
PercentDone == input # None /\ input[1] \in [conforme : Nat, evaluated : Nat]
               /\ output # None

\* the percentage is the quotient rounded to one decimal: it is no further
\* than half a tenth from conforme / max(evaluated, 1) * 100
RoundedToOneDecimal(p, c, e) ==
    LET d == IF e > 1 THEN e ELSE 1
        diff == p * d - 1000 * c
    IN  /\ 2 * diff <= d
        /\ 2 * (0 - diff) <= d

\* C23 as stated: the percentage of conforme elements is the conforme
\* elements over max(evaluated elements, 1) times 100, rounded to one
\* decimal; it is 0 when nothing was evaluated, lies between 0 and 100, and
\* is 100 exactly when every evaluated element is conforme
C23_HundredOnlyWhenAllConforme ==
    PercentDone =>
        LET c == input[1].conforme
            e == input[1].evaluated
            p == output[1]
        IN  /\ RoundedToOneDecimal(p, c, e)
            /\ e = 0 => p = 0
            /\ 0 <= p /\ p <= 1000
            /\ p = 1000 <=> (e > 0 /\ c = e)

\* C23, amended: the percentage of conforme elements is the conforme
\* elements over max(evaluated elements, 1) times 100, rounded to one
\* decimal; it is 0 when nothing was evaluated, lies between 0 and 100, is
\* 100 when at least one element was evaluated and every evaluated element is
\* conforme, and is 100 only when at least 99.95 percent of the evaluated
\* elements are conforme
C23_PercentRoundedToOneDecimal ==
    PercentDone =>
        LET c == input[1].conforme
            e == input[1].evaluated
            p == output[1]
        IN  /\ RoundedToOneDecimal(p, c, e)
            /\ e = 0 => p = 0
            /\ 0 <= p /\ p <= 1000
            /\ (e > 0 /\ c = e) => p = 1000
            /\ p = 1000 => (e > 0 /\ 2000 * c >= 1999 * e)

\* 2000 of 2001 evaluated elements are conforme and the percentage is 100.0
C23_Witness ==
    /\ PercentDone
    /\ input[1].evaluated = 2001
    /\ input[1].conforme = 2000
    /\ output[1] = 1000

\* ---------------------------------------------------------------- C24
\* what is done under the lock: one read, one merge-write, one delete, one
\* purge, or the write of a new session
StoreSteps == {"create", "lookup", "update", "delete", "purge"}

\* a thread that has the lock is inside one store step
HeldWithinOneStep ==
    \A t \in DOMAIN callers :
        callers[t].holds =>
            /\ callers[t].todo # <<>>
            /\ \/ Head(callers[t].todo) = "release"
               \/ /\ Head(callers[t].todo) \in StoreSteps
                  /\ Len(callers[t].todo) > 1
                  /\ callers[t].todo[2] = "release"

\* no thread that has the lock asks for it
NeverReacquired ==
    \A t \in DOMAIN callers :
        callers[t].holds =>
            (callers[t].todo = <<>> \/ Head(callers[t].todo) # "acquire")

\* no thread has the lock while it parses a model, validates or awaits
NeverHeldAcrossAPass ==
    \A t \in DOMAIN callers :
        callers[t].holds =>
            (callers[t].todo = <<>>
             \/ Head(callers[t].todo) \notin {"parse_ifc", "run_validation", "await"})

\* while a thread has steps left, some thread can take a step
NeverStuck ==
    (\E t \in DOMAIN callers : callers[t].todo # <<>>)
        => \E t \in DOMAIN callers : CanStep(t)

AllReturned == \A t \in DOMAIN callers : callers[t].todo = <<>> /\ ~callers[t].holds

\* C24: the store's lock is held only inside one store step (one read, one
\* merge-write, one delete or one purge), by one thread at a time; it is
\* never acquired by a thread that already holds it and never held while
\* parse_ifc or a validation pass runs; no interleaving of handlers and
\* workers deadlocks, and every store operation that is started completes
C24_LockHeldWithinOneStoreStep ==
    /\ [](/\ Cardinality({t \in DOMAIN callers : callers[t].holds}) <= 1
          /\ HeldWithinOneStep
          /\ NeverReacquired
          /\ NeverHeldAcrossAPass
          /\ NeverStuck)
    /\ <>AllReturned

\* a worker has the lock for its update while a handler, which has the event
\* loop, waits for the lock
C24_Witness ==
    \E t, u \in DOMAIN callers :
        /\ callers[t].kind = "worker"
        /\ callers[t].holds
        /\ Head(callers[t].todo) = "update"
        /\ callers[u].kind = "handler"
        /\ callers[u].running
        /\ callers[u].todo # <<>>
        /\ Head(callers[u].todo) = "acquire"

\* ---------------------------------------------------------------- C25
\* C25: in every reachable state a session's model index is non-null only if
\* its job status is done, also when uploads into the same session overlap
\* with workers that are still running.
C25_IndexOnlyWhenDone ==
    \A sid \in sessions :
        heap[sid].ifc_index # None => heap[sid].job_status = "done"

\* ---------------------------------------------------------------- C26
\* the step of upload_excel that stores the report
ExcelStores == h.op = "upload_excel" /\ h.pc = "store" /\ h'.pc = "returned"

\* the report of a validation run with a spreadsheet on a session as it is
ReportOn(session, sheet) ==
    LET name == session.ifc_filename[1]
        found == ExtractDisciplineStage(name)
        headers == Headers(sheet.header_cells)
        rows == [i \in 1..Len(sheet.rows) |-> RowDict(headers, sheet.rows[i])]
        parsed == ParseExcelRules(rows, found.discipline, found.stage)
    IN  Report(session.ifc_index[1], parsed.rules,
               [ifc_filename |-> name, discipline |-> found.discipline,
                stage |-> found.stage], sheet)

\* C26: the report a validation run stores in a session is computed from the
\* elements of one model and carries the discipline, stage and filename of
\* that model, and that model is the one the session holds when the report is
\* stored, whatever uploads into the session ran between the run's read of
\* the session and its write of the report.
C26_ReportOfTheModelHeld ==
    [][(ExcelStores /\ h.session_id[1] \in sessions)
        => LET session == heap'[h.session_id[1]]
           IN  /\ session.ifc_index # None
               /\ session.ifc_filename # None
               /\ ExtractDisciplineStage(session.ifc_filename[1]).error = None
               /\ session.validation_results
                     = Some(ReportOn(session, h.file[1]))]_vars

\* ---------------------------------------------------------------- C27
\* the lookup step of a get call: what get_session returns is fixed
LooksUp == h.pc = "get_lookup" /\ h'.pc = "got"

\* C27: get never returns a session whose age exceeds the TTL at the moment
\* it is returned, however the call interleaves with the passage of time and
\* with other store operations.
C27_GetReturnsNoOverAgeSession ==
    [][(LooksUp /\ h'.session # None)
        => clock' - heap'[h'.session[1]].created_at <= TTL]_vars

\* ---------------------------------------------------------------- C28
\* the job statuses with the progress that goes with each
Coupled ==
    {<<"idle", 0>>, <<"queued", 0>>, <<"running", 10>>, <<"done", 100>>,
     <<"error", 0>>}

\* C28: in every reachable state the job status and the progress of every
\* session are one of (idle, 0), (queued, 0), (running, 10), (done, 100),
\* (error, 0); so the progress is within 0..100 and is 100 iff the status is
\* done; and a session whose status is done has a model index and a filename.
C28_StatusAndProgressCoupled ==
    \A sid \in sessions :
        /\ <<heap[sid].job_status, heap[sid].job_progress>> \in Coupled
        /\ heap[sid].job_progress \in 0..100
        /\ heap[sid].job_progress = 100 <=> heap[sid].job_status = "done"
        /\ heap[sid].job_status = "done"
              => heap[sid].ifc_index # None /\ heap[sid].ifc_filename # None

\* C28 witness: the worker of a second upload into a session has written
\* running with progress 10 over the done and 100 that the worker of the
\* first upload wrote after the reset
C28_Witness ==
    \E sid \in sessions :
        /\ heap[sid].job_id = Some(2)
        /\ heap[sid].job_status = "running"
        /\ heap[sid].job_progress = 10
        /\ heap[sid].ifc_index # None

\* ---------------------------------------------------------------- C29
\* the thread of job j takes a step
WorkerSteps(j) ==
    j \in DOMAIN workers /\ (j \notin DOMAIN workers' \/ workers'[j] # workers[j])

====
